---------------------------- MODULE Spec2Model ----------------------------
(***************************************************************************)
(* zip-go: the streaming ZIP writer (lib/write.js, class ZipTransformer)   *)
(* and the lazy central-directory reader (lib/read.js, Reader and Entry).  *)
(*                                                                         *)
(* Bytes are integers 0..255 and every buffer is a sequence of bytes, so   *)
(* that the writer's layout and the reader's parsing meet on the wire      *)
(* format.  Numbers that can exceed 31 bits (BigInt counters, getUint32    *)
(* and getBigUint64 results) are kept as 8 little-endian base-256 digits   *)
(* ("Num").  Strings are sequences of code points.  A Date is the pair     *)
(* (day, ms): days since 1970-01-01 UTC and milliseconds in the day; its   *)
(* local fields depend on the time zone of the host.                       *)
(***************************************************************************)
EXTENDS Integers, Sequences, FiniteSets, TLC

(***************************************************************************)
(* Program constants                                                       *)
(***************************************************************************)
ZIP_COMMENT_MAX == 65536
EOCDR_MIN == 22
EOCDR_MAX == EOCDR_MIN + ZIP_COMMENT_MAX
MAX_VALUE_32BITS == <<255, 255, 255, 255, 0, 0, 0, 0>>
ERR_BAD_FORMAT == "File format is not recognized."
ERR_INVALID_ZIP == "Invalid ZIP file."
ERR_ENTRY_SIGNATURE == "ERR_BAD_FORMAT"
ERR_FILE_EXISTS == "File already exists."
ERR_RANGE == "RangeError: Offset is outside the bounds of the DataView"
ERR_NOT_A_FUNCTION == "TypeError: ctrl.abort is not a function"
ERR_SOURCE == "SourceStreamError"
\* undefined, for the fields that hold a record otherwise
Undefined == [undefined |-> TRUE]
\* a defined value of a field that may be undefined
Defined(v) == [value |-> v]
NoError == ""

(***************************************************************************)
(* Bounds of the model                                                     *)
(***************************************************************************)
MaxEntries == 2
MaxReads == 2
BlobChunk == 2

(***************************************************************************)
(* Byte sequences and little-endian fields                                 *)
(***************************************************************************)
Min(a, b) == IF a < b THEN a ELSE b
Max(a, b) == IF a > b THEN a ELSE b
\* the largest integer of the model: stands for any index beyond the blob, and
\* leaves room for the sums of three such indices
MaxInt == 2^29

\* a function over 1..n as an evaluated tuple
Tuple(f, n) == SubSeq(f, 1, n)

Zeros(n) == Tuple([i \in 1..n |-> 0], n)

RECURSIVE Concat(_)
Concat(chunks) ==
  IF chunks = <<>> THEN <<>> ELSE Head(chunks) \o Concat(Tail(chunks))

\* Uint8Array.prototype.set(src, at): src copied into buf from 0-based index at
SetBytes(buf, at, src) ==
  Tuple([i \in 1..Len(buf) |->
           IF i > at /\ i <= at + Len(src) THEN src[i - at] ELSE buf[i]],
        Len(buf))

\* a run of typed-array stores into buf, in the order of ws: each store puts
\* src at the 0-based index at, and a later store overwrites an earlier one
SetAll(buf, ws) ==
  Tuple([i \in 1..Len(buf) |->
           LET hits == {j \in 1..Len(ws) : i > ws[j].at /\ i <= ws[j].at + Len(ws[j].src)}
           IN  IF hits = {} THEN buf[i]
               ELSE LET j == CHOOSE m \in hits : \A o \in hits : o <= m
                    IN  ws[j].src[i - ws[j].at]],
        Len(buf))

\* Blob/ArrayBuffer slice(start, end) with 0-based, clamped, possibly negative bounds
Slice(b, start, end) ==
  LET n == Len(b)
      s == IF start < 0 THEN Max(n + start, 0) ELSE Min(start, n)
      e == IF end < 0 THEN Max(n + end, 0) ELSE Min(end, n)
  IN  IF e <= s THEN <<>> ELSE SubSeq(b, s + 1, e)

\* b[n] of a Uint8Array: undefined (0 under |) outside the array
ByteAt(b, n) == IF n >= 0 /\ n < Len(b) THEN b[n + 1] ELSE 0

uint16e(b, n) == ByteAt(b, n) + 256 * ByteAt(b, n + 1)

\* DataView.setUint16(_, v, true): the low 16 bits of v, little-endian
LE16(v) == <<v % 256, (v \div 256) % 256>>
\* DataView.setUint16(_, v): big-endian
BE16(v) == <<(v \div 256) % 256, v % 256>>

(***************************************************************************)
(* Num: 64-bit naturals as 8 little-endian digits                          *)
(***************************************************************************)
NumOf(n) ==
  <<n % 256, (n \div 256) % 256, (n \div 65536) % 256,
    (n \div 16777216) % 256, 0, 0, 0, 0>>

RECURSIVE AddFrom(_, _, _, _)
AddFrom(a, b, i, carry) ==
  IF i > 8 THEN <<>>
  ELSE LET s == a[i] + b[i] + carry
       IN  <<s % 256>> \o AddFrom(a, b, i + 1, s \div 256)

NumAdd(a, b) == AddFrom(a, b, 1, 0)

RECURSIVE GtFrom(_, _, _)
GtFrom(a, b, i) ==
  IF i < 1 THEN FALSE
  ELSE IF a[i] # b[i] THEN a[i] > b[i] ELSE GtFrom(a, b, i - 1)

NumGT(a, b) == GtFrom(a, b, 8)

\* Number(x) used as an index: exact below 2^29, otherwise beyond any modelled blob
NumToInt(a) ==
  IF a[5] = 0 /\ a[6] = 0 /\ a[7] = 0 /\ a[8] = 0 /\ a[4] < 32
  THEN a[1] + 256 * a[2] + 65536 * a[3] + 16777216 * a[4]
  ELSE MaxInt

\* DataView.setUint32(_, Number(x), true): the low 32 bits
LE32(a) == SubSeq(a, 1, 4)
\* DataView.setBigUint64(_, x, true)
LE64(a) == a
\* DataView.getUint32(i, true) of a buffer known to hold the 4 bytes
NumOfLE32(b, i) == SubSeq(b, i + 1, i + 4) \o Zeros(4)

(***************************************************************************)
(* Strings: TextEncoder, TextDecoder, String.prototype.trim                *)
(***************************************************************************)
WhiteSpace == {9, 10, 11, 12, 13, 32, 160, 65279}
SLASH == <<47>>

RECURSIVE TrimStart(_)
TrimStart(s) ==
  IF s # <<>> /\ Head(s) \in WhiteSpace THEN TrimStart(Tail(s)) ELSE s

RECURSIVE TrimEnd(_)
TrimEnd(s) ==
  IF s # <<>> /\ s[Len(s)] \in WhiteSpace
  THEN TrimEnd(SubSeq(s, 1, Len(s) - 1)) ELSE s

Trim(s) == TrimEnd(TrimStart(s))

EndsWithSlash(s) == s # <<>> /\ s[Len(s)] = 47

\* TextEncoder.encode of one code point (below 0x10000, no surrogates)
EncodeCodePoint(c) ==
  IF c < 128 THEN <<c>>
  ELSE IF c < 2048 THEN <<192 + (c \div 64), 128 + (c % 64)>>
  ELSE <<224 + (c \div 4096), 128 + ((c \div 64) % 64), 128 + (c % 64)>>

RECURSIVE Utf8Encode(_)
Utf8Encode(s) ==
  IF s = <<>> THEN <<>> ELSE EncodeCodePoint(Head(s)) \o Utf8Encode(Tail(s))

\* how many continuation bytes the lead byte b announces (0: none, -1: invalid)
Utf8Needed(b) ==
  IF b < 128 THEN 0
  ELSE IF b >= 194 /\ b <= 223 THEN 1
  ELSE IF b >= 224 /\ b <= 239 THEN 2
  ELSE IF b >= 240 /\ b <= 244 THEN 3
  ELSE -1

\* the range allowed for the k-th continuation byte after lead byte b
Utf8Lower(b, k) ==
  IF k = 1 /\ b = 224 THEN 160 ELSE IF k = 1 /\ b = 240 THEN 144 ELSE 128
Utf8Upper(b, k) ==
  IF k = 1 /\ b = 237 THEN 159 ELSE IF k = 1 /\ b = 244 THEN 143 ELSE 191

RECURSIVE Utf8Good(_, _, _, _)
\* the number of valid continuation bytes following the lead byte at i
Utf8Good(b, i, k, need) ==
  IF k > need \/ i + k > Len(b) THEN k - 1
  ELSE IF b[i + k] >= Utf8Lower(b[i], k) /\ b[i + k] <= Utf8Upper(b[i], k)
       THEN Utf8Good(b, i, k + 1, need)
       ELSE k - 1

Utf8CodePoint(b, i, need) ==
  CASE need = 0 -> b[i]
    [] need = 1 -> (b[i] % 32) * 64 + (b[i + 1] % 64)
    [] need = 2 -> (b[i] % 16) * 4096 + (b[i + 1] % 64) * 64 + (b[i + 2] % 64)
    [] OTHER -> (b[i] % 8) * 262144 + (b[i + 1] % 64) * 4096
                + (b[i + 2] % 64) * 64 + (b[i + 3] % 64)

RECURSIVE Utf8DecodeFrom(_, _)
Utf8DecodeFrom(b, i) ==
  IF i > Len(b) THEN <<>>
  ELSE LET need == Utf8Needed(b[i])
           good == IF need < 0 THEN 0 ELSE Utf8Good(b, i, 1, need)
       IN  IF need >= 0 /\ good = need
           THEN <<Utf8CodePoint(b, i, need)>> \o Utf8DecodeFrom(b, i + need + 1)
           ELSE <<65533>> \o Utf8DecodeFrom(b, i + good + 1)

\* TextDecoder.decode (utf-8, replacement on error, a leading BOM dropped)
Utf8Decode(b) ==
  IF Len(b) >= 3 /\ b[1] = 239 /\ b[2] = 187 /\ b[3] = 191
  THEN Utf8DecodeFrom(b, 4)
  ELSE Utf8DecodeFrom(b, 1)

(***************************************************************************)
(* CRC-32 (lib/crc.js): IEEE 802.3, reflected, polynomial 0xEDB88320       *)
(* A register is 32 bits, least significant first.                         *)
(***************************************************************************)
BitsOfBytes(b) ==
  Tuple([i \in 1..32 |-> (b[((i - 1) \div 8) + 1] \div (2^((i - 1) % 8))) % 2], 32)
BytesOfBits(r) ==
  Tuple([k \in 1..4 |->
           r[8*k - 7] + 2 * r[8*k - 6] + 4 * r[8*k - 5] + 8 * r[8*k - 4]
           + 16 * r[8*k - 3] + 32 * r[8*k - 2] + 64 * r[8*k - 1] + 128 * r[8*k]],
        4)
CrcPoly == BitsOfBytes(<<32, 131, 184, 237>>)
BitXor(a, b) == Tuple([i \in 1..32 |-> (a[i] + b[i]) % 2], 32)
CrcShift(r) ==
  LET s == Tuple([i \in 1..32 |-> IF i < 32 THEN r[i + 1] ELSE 0], 32)
  IN  IF r[1] = 1 THEN BitXor(s, CrcPoly) ELSE s
CrcByte(r, byte) ==
  LET x == BitXor(r, BitsOfBytes(<<byte, 0, 0, 0>>))
  IN  CrcShift(CrcShift(CrcShift(CrcShift(CrcShift(CrcShift(CrcShift(CrcShift(x))))))))

RECURSIVE CrcBits(_, _)
CrcBits(r, chunk) ==
  IF chunk = <<>> THEN r ELSE CrcBits(CrcByte(r, Head(chunk)), Tail(chunk))

\* new Crc32(): the register starts at -1, kept here as its 4 bytes
CrcNew == <<255, 255, 255, 255>>
\* Crc32.append(chunk)
CrcAppend(crc, chunk) == BytesOfBits(CrcBits(BitsOfBytes(crc), chunk))
\* Crc32.get(): the complement of the register, as the 4 bytes setUint32(_, v, true) stores
CrcGet(crc) == <<255 - crc[1], 255 - crc[2], 255 - crc[3], 255 - crc[4]>>

(***************************************************************************)
(* State                                                                   *)
(***************************************************************************)
VARIABLES
  offset,      \* ZipTransformer.offset (Num)
  files,       \* ZipTransformer.files: name -> record
  filenames,   \* ZipTransformer.filenames
  cur,         \* the transform() call suspended at `await reader.read()`
  out,         \* the chunks passed to ctrl.enqueue, in order
  outlog,      \* for each chunk of out: what it is and which entry it belongs to
  wstatus,     \* the Writer stream: "open", "errored", "closed"
  werror,      \* the error the Writer stream failed with
  accepted,    \* the input entries transform() recorded, in order
  rejected,    \* the normalized names transform() found already present
  blob,        \* the blob given to Reader
  rstate,      \* the Reader generator: "idle", "iterating", "failed", "done"
  rerror,      \* the error Reader threw
  cdbytes,     \* the central directory buffer shared by the handles
  rnext,       \* Reader's loop variables i and index
  fileslength, \* Reader's fileslength
  handles,     \* the Entry objects yielded, in order
  tasks,       \* the read calls made on the handles, with their progress
  zone,        \* the time zone of the host
  pulled       \* the chunks the consumer of the Writer's output has asked for

wvars == <<offset, files, filenames, cur, out, outlog, wstatus, werror,
           accepted, rejected, pulled>>
rvars == <<blob, rstate, rerror, cdbytes, rnext, fileslength, handles>>
vars == <<zone, wvars, rvars, tasks, zone>>

NoEntry == [name |-> Undefined]

(***************************************************************************)
(* Date: an instant, as days since 1970-01-01 UTC and milliseconds in the  *)
(* day; its local fields are those of the host's time zone                 *)
(***************************************************************************)
MsPerDay == 24 * 60 * 60 * 1000
MsPerHour == 60 * 60 * 1000

\* days since 1970-01-01 of the civil date y-m-d (m in 1..12), proleptic Gregorian
DaysFromCivil(y, m, d) ==
  LET yy == IF m <= 2 THEN y - 1 ELSE y
      era == yy \div 400
      yoe == yy - era * 400
      mp == (m + 9) % 12
      doy == ((153 * mp + 2) \div 5) + d - 1
      doe == yoe * 365 + (yoe \div 4) - (yoe \div 100) + doy
  IN  era * 146097 + doe - 719468

\* the civil date <<year, month (1..12), day>> of a day number
CivilFromDays(z0) ==
  LET z == z0 + 719468
      era == z \div 146097
      doe == z - era * 146097
      yoe == (doe - (doe \div 1460) + (doe \div 36524) - (doe \div 146096)) \div 365
      doy == doe - (365 * yoe + (yoe \div 4) - (yoe \div 100))
      mp == (5 * doy + 2) \div 153
      d == doy - ((153 * mp + 2) \div 5) + 1
      m == IF mp < 10 THEN mp + 3 ELSE mp - 9
      y == yoe + era * 400 + (IF m <= 2 THEN 1 ELSE 0)
  IN  <<y, m, d>>

\* Date.UTC(year, monthIndex, day, hours, minutes, seconds, ms): fields out of
\* range carry over (MakeDay, MakeTime, MakeDate of ECMA-262)
DateUTC(year, monthIndex, day, hours, minutes, seconds, ms) ==
  LET y == year + (monthIndex \div 12)
      m == monthIndex % 12
      t == ((hours * 60 + minutes) * 60 + seconds) * 1000 + ms
      dd == DaysFromCivil(y, m + 1, 1) + (day - 1) + (t \div MsPerDay)
  IN  [day |-> dd, ms |-> t % MsPerDay]

\* the instant delta milliseconds after date
AddMs(date, delta) ==
  [day |-> date.day + ((date.ms + delta) \div MsPerDay),
   ms |-> (date.ms + delta) % MsPerDay]

Before(a, b) == a.day < b.day \/ (a.day = b.day /\ a.ms < b.ms)

\* the hosts: one an hour ahead of UTC all year, one on central European time
\* with the summer time rule in force since 1996 (summer time, two hours
\* ahead, from 01:00 UTC on the last Sunday of March to 01:00 UTC on the last
\* Sunday of October)
Zones == {"Etc/GMT-1", "Europe/Berlin"}
StandardOffset == MsPerHour
SummerOffset == 2 * MsPerHour

\* the day number of the last Sunday of a month of 31 days (day 0 is a Thursday)
LastSunday(y, m) ==
  LET d == DaysFromCivil(y, m, 31)
  IN  d - ((d + 4) % 7)

SummerTime(date) ==
  LET y == CivilFromDays(date.day)[1]
  IN  /\ zone = "Europe/Berlin"
      /\ ~Before(date, [day |-> LastSunday(y, 3), ms |-> MsPerHour])
      /\ Before(date, [day |-> LastSunday(y, 10), ms |-> MsPerHour])

\* LocalTime(t) of ECMA-262
LocalTime(date) ==
  AddMs(date, IF SummerTime(date) THEN SummerOffset ELSE StandardOffset)

\* UTC(t) of ECMA-262: a local time that a transition repeats or skips is read
\* with the offset in force before the transition
UTCOfLocal(local) ==
  IF SummerTime(AddMs(local, -SummerOffset)) THEN AddMs(local, -SummerOffset)
  ELSE AddMs(local, -StandardOffset)

\* new Date(year, monthIndex, day, hours, minutes, seconds, ms)
NewDate(year, monthIndex, day, hours, minutes, seconds, ms) ==
  UTCOfLocal(DateUTC(year, monthIndex, day, hours, minutes, seconds, ms))

getFullYear(date) == CivilFromDays(LocalTime(date).day)[1]
getMonth(date) == CivilFromDays(LocalTime(date).day)[2] - 1
getDate(date) == CivilFromDays(LocalTime(date).day)[3]
getHours(date) == LocalTime(date).ms \div 3600000
getMinutes(date) == (LocalTime(date).ms \div 60000) % 60
getSeconds(date) == (LocalTime(date).ms \div 1000) % 60
getMilliseconds(date) == LocalTime(date).ms % 1000

\* a.getTime() - b.getTime(), exact when the two lie within a day of each other
TimeDiff(a, b) ==
  IF a.day - b.day > 1 THEN MaxInt
  ELSE IF b.day - a.day > 1 THEN -MaxInt
  ELSE (a.day - b.day) * MsPerDay + (a.ms - b.ms)

(***************************************************************************)
(* Bitwise operators of JavaScript, on the low 16 bits                     *)
(* (setUint16 keeps only those, and |, << commute with that truncation)    *)
(***************************************************************************)
RECURSIVE BitOrFrom(_, _, _)
BitOrFrom(a, b, k) ==
  IF k = 0 THEN 0
  ELSE (IF a % 2 = 1 \/ b % 2 = 1 THEN 1 ELSE 0)
       + 2 * BitOrFrom(a \div 2, b \div 2, k - 1)

BitOr16(a, b) == BitOrFrom(a % 65536, b % 65536, 16)
Shl16(a, k) == (a * (2^k)) % 65536


(***************************************************************************)
(* Writer: ZipTransformer.transform                                        *)
(***************************************************************************)

\* let name = entry.name.trim(); if (entry.directory && !name.endsWith('/')) name += '/'
NormalizedName(e) ==
  LET name == Trim(e.name)
  IN  IF e.directory /\ ~EndsWithSlash(name) THEN name \o SLASH ELSE name

\* (((date.getHours() << 6) | date.getMinutes()) << 5) | (date.getSeconds() / 2)
DosTime(date) ==
  BitOr16(Shl16(BitOr16(Shl16(getHours(date), 6), getMinutes(date)), 5),
          getSeconds(date) \div 2)

\* ((((date.getFullYear() - 1980) << 4) | (date.getMonth() + 1)) << 5) | date.getDate()
DosDate(date) ==
  BitOr16(Shl16(BitOr16(Shl16(getFullYear(date) - 1980, 4), getMonth(date) + 1), 5),
          getDate(date))

\* the 26-byte header buffer after hdv.setUint32(0, 0x14000808) and the
\* time, date and name length stores
NewHeader(date, nameBuf) ==
  LET h0 == SetBytes(Zeros(26), 0, <<20, 0, 8, 8>>)
      h1 == SetBytes(h0, 6, LE16(DosTime(date)))
      h2 == SetBytes(h1, 8, LE16(DosDate(date)))
  IN  SetBytes(h2, 22, LE16(Len(nameBuf)))

\* data = new Uint8Array(30 + nameBuf.length) with signature, header and name
LocalHeader(header, nameBuf) ==
  LET d0 == SetBytes(Zeros(30 + Len(nameBuf)), 0, <<80, 75, 3, 4>>)
      d1 == SetBytes(d0, 4, header)
  IN  SetBytes(d1, 30, nameBuf)

\* a footer of the 24 bytes a ZIP64 data descriptor takes
WideFooter == SetBytes(Zeros(24), 0, <<80, 75, 7, 8>>)

\* footer = new Uint8Array(16); footer.set([80, 75, 7, 8])
NewFooter == SetBytes(Zeros(16), 0, <<80, 75, 7, 8>>)

\* BigInt(chunk.length)
ChunkLength(chunk) == NumOf(Len(chunk))

NewZipObject(e, nameBuf, date) ==
  [directory |-> e.directory,
   nameBuf |-> nameBuf,
   offset |-> offset,
   comment |-> Utf8Encode(e.comment),
   compressedLength |-> NumOf(0),
   uncompressedLength |-> NumOf(0),
   header |-> NewHeader(date, nameBuf),
   zip64 |-> FALSE,
   crc |-> IF e.hasStream THEN CrcNew ELSE Undefined]

\* if (this.files[name]) ctrl.abort(...): a TransformStreamDefaultController has
\* no abort method, so the call throws and transform() rejects
DuplicateError == ERR_NOT_A_FUNCTION

\* transform(entry, ctrl) up to its first await (or to its end when the entry
\* has no stream); now is what Date.now() returns
TransformBegin(e, now) ==
  /\ wstatus = "open"
  /\ cur = NoEntry
  /\ Len(accepted) < MaxEntries
  /\ LET name == NormalizedName(e)
         date == IF e.lastModified = Undefined THEN now ELSE e.lastModified
         nameBuf == Utf8Encode(name)
         zipObject == NewZipObject(e, nameBuf, date)
         data == LocalHeader(zipObject.header, nameBuf)
     IN  IF name \in DOMAIN files
         THEN /\ wstatus' = "errored"
              /\ werror' = DuplicateError
              /\ rejected' = rejected \cup {name}
              /\ UNCHANGED <<offset, files, filenames, cur, out, outlog, accepted>>
         ELSE /\ filenames' = Append(filenames, name)
              /\ files' = files @@ (name :> zipObject)
              /\ accepted' = Append(accepted, e)
              /\ IF e.hasStream
                 THEN /\ offset' = NumAdd(offset, NumOf(Len(data)))
                      /\ out' = Append(out, data)
                      /\ outlog' = Append(outlog, [kind |-> "local", name |-> name])
                      /\ cur' = [name |-> name, rest |-> e.chunks,
                                 fails |-> e.fails, footer |-> NewFooter]
                 ELSE /\ offset' = NumAdd(NumAdd(offset, NumOf(Len(data))),
                                          NumAdd(zipObject.compressedLength, NumOf(16)))
                      /\ out' = out \o <<data, NewFooter>>
                      /\ outlog' = outlog \o <<[kind |-> "local", name |-> name],
                                               [kind |-> "descriptor", name |-> name]>>
                      /\ cur' = cur
              /\ UNCHANGED <<wstatus, werror, rejected>>
  /\ UNCHANGED <<rvars, tasks, zone, pulled>>

\* one turn of the read loop that delivers a chunk
ReadChunk ==
  /\ wstatus = "open"
  /\ cur # NoEntry
  /\ cur.rest # <<>>
  /\ LET chunk == Head(cur.rest)
         z == files[cur.name]
     IN  /\ files' = [files EXCEPT ![cur.name] =
                        [z EXCEPT !.crc = CrcAppend(z.crc, chunk),
                                  !.uncompressedLength =
                                     NumAdd(z.uncompressedLength, ChunkLength(chunk)),
                                  !.compressedLength =
                                     NumAdd(z.compressedLength, ChunkLength(chunk))]]
         /\ out' = Append(out, chunk)
         /\ outlog' = Append(outlog, [kind |-> "data", name |-> cur.name])
         /\ cur' = [cur EXCEPT !.rest = Tail(cur.rest)]
  /\ UNCHANGED <<offset, filenames, wstatus, werror, accepted, rejected, rvars, tasks, zone, pulled>>

\* zipObject.zip64 = compressedLength > MAX || uncompressedLength > MAX || offset > MAX
EntryNeedsZip64(z) ==
  \/ NumGT(z.compressedLength, MAX_VALUE_32BITS)
  \/ NumGT(z.uncompressedLength, MAX_VALUE_32BITS)
  \/ NumGT(z.offset, MAX_VALUE_32BITS)

\* the header buffer after the crc and the two sizes are stored
FinishedHeader(z, zip64) ==
  LET h0 == SetBytes(z.header, 10, CrcGet(z.crc))
      h1 == SetBytes(h0, 14, IF zip64 THEN LE32(MAX_VALUE_32BITS)
                                      ELSE LE32(z.compressedLength))
      h2 == SetBytes(h1, 18, IF zip64 THEN LE32(MAX_VALUE_32BITS)
                                      ELSE LE32(z.uncompressedLength))
  IN  SetBytes(h2, 22, LE16(Len(z.nameBuf)))

\* the read that reports done, and the rest of transform()
ReadDone ==
  /\ wstatus = "open"
  /\ cur # NoEntry
  /\ cur.rest = <<>>
  /\ ~cur.fails
  /\ LET z == files[cur.name]
         zip64 == EntryNeedsZip64(z)
         header == FinishedHeader(z, zip64)
         footer == SetBytes(cur.footer, 4, SubSeq(header, 11, 22))
     IN  /\ files' = [files EXCEPT ![cur.name] =
                        [z EXCEPT !.zip64 = zip64, !.header = header]]
         /\ offset' = NumAdd(offset, NumAdd(z.compressedLength, NumOf(16)))
         /\ out' = Append(out, footer)
         /\ outlog' = Append(outlog, [kind |-> "descriptor", name |-> cur.name])
  /\ cur' = NoEntry
  /\ UNCHANGED <<filenames, wstatus, werror, accepted, rejected, rvars, tasks, zone, pulled>>

\* a Writer that would still emit the data descriptor of an entry whose
\* source failed
ReadFailEmitting ==
  /\ wstatus = "open"
  /\ cur # NoEntry
  /\ cur.rest = <<>>
  /\ cur.fails
  /\ wstatus' = "errored"
  /\ werror' = ERR_SOURCE
  /\ out' = Append(out, cur.footer)
  /\ outlog' = Append(outlog, [kind |-> "descriptor", name |-> cur.name])
  /\ UNCHANGED <<offset, files, filenames, cur, accepted, rejected, rvars, tasks, zone, pulled>>

\* the read that rejects: transform() rejects with the source's error
ReadFail ==
  /\ wstatus = "open"
  /\ cur # NoEntry
  /\ cur.rest = <<>>
  /\ cur.fails
  /\ wstatus' = "errored"
  /\ werror' = ERR_SOURCE
  /\ UNCHANGED <<offset, files, filenames, cur, out, outlog, accepted, rejected,
                 rvars, tasks, zone, pulled>>


(***************************************************************************)
(* Writer: ZipTransformer.flush                                            *)
(***************************************************************************)
ExtraFieldLen(z) == IF z.zip64 THEN 20 ELSE 0

\* 46 + file.nameBuf.length + file.comment.length + extraFieldLen
RecordLength(z) == 46 + Len(z.nameBuf) + Len(z.comment) + ExtraFieldLen(z)

RECURSIVE DirectoryLength(_, _)
\* the first forEach of flush: the sum of the record lengths
DirectoryLength(fs, names) ==
  IF names = <<>> THEN 0
  ELSE RecordLength(fs[Head(names)]) + DirectoryLength(fs, Tail(names))

\* needsZip64 after the first forEach and the check that follows it
NeedsZip64(fs, names, off, length) ==
  \/ \E k \in 1..Len(names) : fs[names[k]].zip64
  \/ NumGT(off, MAX_VALUE_32BITS)
  \/ NumGT(NumOf(length), MAX_VALUE_32BITS)
  \/ Len(names) > 65535

\* one turn of the second forEach: the record of file z written at index into data
WriteCentralRecord(data, index, z) ==
  LET extraIndex == index + 46 + Len(z.nameBuf)
  IN  SetAll(data,
        <<[at |-> index, src |-> <<80, 75, 1, 2>>],
          [at |-> index + 4, src |-> BE16(IF z.zip64 THEN 11520 ELSE 5120)],
          [at |-> index + 32, src |-> LE16(Len(z.comment))],
          [at |-> index + 38, src |-> <<IF z.directory THEN 16 ELSE 0>>],
          [at |-> index + 42,
           src |-> IF z.zip64 \/ NumGT(z.offset, MAX_VALUE_32BITS)
                   THEN LE32(MAX_VALUE_32BITS) ELSE LE32(z.offset)],
          [at |-> index + 6, src |-> z.header],
          [at |-> index + 46, src |-> z.nameBuf],
          [at |-> extraIndex,
           src |-> IF z.zip64
                   THEN LE16(1) \o LE16(16) \o LE64(z.uncompressedLength)
                        \o LE64(z.compressedLength)
                   ELSE <<>>],
          [at |-> index + 30, src |-> IF z.zip64 THEN LE16(20) ELSE <<>>],
          [at |-> extraIndex + ExtraFieldLen(z), src |-> z.comment]>>)

RECURSIVE WriteCentralDirectoryReversed(_, _, _, _)
\* a flush that would write the records last accepted first
WriteCentralDirectoryReversed(data, index, fs, names) ==
  IF names = <<>> THEN data
  ELSE LET z == fs[names[Len(names)]]
       IN  WriteCentralDirectoryReversed(WriteCentralRecord(data, index, z),
                                         index + RecordLength(z), fs,
                                         SubSeq(names, 1, Len(names) - 1))

RECURSIVE WriteCentralDirectory(_, _, _, _)
WriteCentralDirectory(data, index, fs, names) ==
  IF names = <<>> THEN data
  ELSE LET z == fs[Head(names)]
       IN  WriteCentralDirectory(WriteCentralRecord(data, index, z),
                                 index + RecordLength(z), fs, Tail(names))

\* a flush that would store the central directory start as the locator's
\* offset of the ZIP64 end of central directory record
WriteZip64RecordsLocatorAtStart(data, index, count, centralDirSize, centralDirStart) ==
  SetAll(data,
    <<[at |-> index, src |-> <<6, 6, 75, 80>>],
      [at |-> index + 4, src |-> LE64(NumOf(44))],
      [at |-> index + 12, src |-> LE16(45)],
      [at |-> index + 14, src |-> LE16(45)],
      [at |-> index + 16, src |-> Zeros(8)],
      [at |-> index + 24, src |-> LE64(NumOf(count))],
      [at |-> index + 32, src |-> LE64(NumOf(count))],
      [at |-> index + 40, src |-> LE64(centralDirSize)],
      [at |-> index + 48, src |-> LE64(centralDirStart)],
      [at |-> index + 56, src |-> <<7, 6, 75, 80>>],
      [at |-> index + 60, src |-> Zeros(4)],
      [at |-> index + 64, src |-> LE64(centralDirStart)],
      [at |-> index + 72, src |-> LE32(NumOf(1))]>>)

\* the ZIP64 end of central directory record and its locator, written at index
WriteZip64Records(data, index, count, centralDirSize, centralDirStart) ==
  SetAll(data,
    <<[at |-> index, src |-> <<6, 6, 75, 80>>],
      [at |-> index + 4, src |-> LE64(NumOf(44))],
      [at |-> index + 12, src |-> LE16(45)],
      [at |-> index + 14, src |-> LE16(45)],
      [at |-> index + 16, src |-> Zeros(8)],
      [at |-> index + 24, src |-> LE64(NumOf(count))],
      [at |-> index + 32, src |-> LE64(NumOf(count))],
      [at |-> index + 40, src |-> LE64(centralDirSize)],
      [at |-> index + 48, src |-> LE64(centralDirStart)],
      [at |-> index + 56, src |-> <<7, 6, 75, 80>>],
      [at |-> index + 60, src |-> Zeros(4)],
      [at |-> index + 64, src |-> LE64(NumAdd(centralDirStart, centralDirSize))],
      [at |-> index + 72, src |-> LE32(NumOf(1))]>>)

\* the end of central directory record, written at index
WriteEndRecord(data, index, needsZip64, count, centralDirSize, centralDirStart) ==
  SetAll(data,
    <<[at |-> index, src |-> <<80, 75, 5, 6>>],
      [at |-> index + 8, src |-> LE16(IF needsZip64 THEN 65535 ELSE count)],
      [at |-> index + 10, src |-> LE16(IF needsZip64 THEN 65535 ELSE count)],
      [at |-> index + 12, src |-> IF needsZip64 THEN LE32(MAX_VALUE_32BITS)
                                                ELSE LE32(centralDirSize)],
      [at |-> index + 16, src |-> IF needsZip64 THEN LE32(MAX_VALUE_32BITS)
                                                ELSE LE32(centralDirStart)]>>)

\* the single chunk flush() enqueues
FlushData(fs, names, off) ==
  LET length == DirectoryLength(fs, names)
      needsZip64 == NeedsZip64(fs, names, off, length)
      d0 == Zeros(length + (IF needsZip64 THEN 98 ELSE 22))
      d1 == WriteCentralDirectory(d0, 0, fs, names)
      d2 == IF needsZip64
            THEN WriteZip64Records(d1, length, Len(names), NumOf(length), off)
            ELSE d1
  IN  WriteEndRecord(d2, length + (IF needsZip64 THEN 76 ELSE 0), needsZip64,
                     Len(names), NumOf(length), off)

\* flush(ctrl): runs once the entries are exhausted and no transform() is pending
Flush ==
  /\ wstatus = "open"
  /\ cur = NoEntry
  /\ out' = Append(out, FlushData(files, filenames, offset))
  /\ outlog' = Append(outlog, [kind |-> "central", name |-> <<>>])
  /\ files' = <<>>
  /\ filenames' = <<>>
  /\ offset' = NumOf(0)
  /\ wstatus' = "closed"
  /\ UNCHANGED <<cur, werror, accepted, rejected, rvars, tasks, zone, pulled>>


(***************************************************************************)
(* Reader: the Entry class                                                 *)
(***************************************************************************)
\* new DataView(bytes.buffer, index, size): the bytes the view covers
ViewBytes(buffer, h) == SubSeq(buffer, h.index + 1, h.index + h.size)

\* DataView.getUint16(i, true), inside the view
getUint16(dv, i) == dv[i + 1] + 256 * dv[i + 2]
\* DataView.getUint32(i, true), inside the view
getUint32(dv, i) == NumOfLE32(dv, i)
\* DataView.getBigUint64(i, true), inside the view
getBigUint64(dv, i) == SubSeq(dv, i + 1, i + 8)

filenameLength(dv) == getUint16(dv, 28)
extraFieldLength(dv) == getUint16(dv, 30)
commentLength(dv) == getUint16(dv, 32)
bitFlag(dv) == getUint16(dv, 8)
compressionMethod(dv) == getUint16(dv, 10)
crc32(dv) == getUint32(dv, 16)
EntryOffset(dv) == getUint32(dv, 42)

RECURSIVE ScanExtraFields(_, _, _, _, _)
\* the for loop of the Entry constructor: the extra fields by id, and ERR_RANGE
\* as error when a getUint16 reaches past the view
ScanExtraFields(buffer, byteOffset, dv, i, fields) ==
  IF i >= Len(dv) THEN [error |-> NoError, fields |-> fields]
  ELSE IF i + 4 > Len(dv) THEN [error |-> ERR_RANGE, fields |-> fields]
  ELSE LET id == getUint16(dv, i)
           len == getUint16(dv, i + 2)
           start == byteOffset + i + 4
           payload == Slice(buffer, start, start + len)
       IN  ScanExtraFields(buffer, byteOffset, dv, i + len + 4,
                           [x \in DOMAIN fields \cup {id} |->
                              IF x = id THEN payload ELSE fields[x]])

\* a constructor that would not look at the signature
NewEntryUnsigned(buffer, index, size) ==
  LET dv == SubSeq(buffer, index + 1, index + size)
      scan == ScanExtraFields(buffer, index, dv, 46 + filenameLength(dv), <<>>)
  IN  [error |-> scan.error,
       index |-> index, size |-> size, extraFields |-> scan.fields,
       name |-> Undefined, localFileOffset |-> Undefined]

\* new Entry(file, dataView): the handle, or the error the constructor throws
NewEntry(buffer, index, size) ==
  LET dv == SubSeq(buffer, index + 1, index + size)
      scan == ScanExtraFields(buffer, index, dv, 46 + filenameLength(dv), <<>>)
  IN  [error |-> IF SubSeq(dv, 1, 4) # <<80, 75, 1, 2>> THEN ERR_ENTRY_SIGNATURE
                 ELSE scan.error,
       index |-> index, size |-> size, extraFields |-> scan.fields,
       name |-> Undefined, localFileOffset |-> Undefined]

HasExtra(h, id) == id \in DOMAIN h.extraFields

\* get compressedSize
compressedSize(h, dv) ==
  LET size == getUint32(dv, 20)
  IN  IF size = MAX_VALUE_32BITS /\ HasExtra(h, 1) /\ Len(h.extraFields[1]) >= 16
      THEN getBigUint64(h.extraFields[1], 8)
      ELSE size

\* get size throws: getBigUint64(0) on a field that holds fewer than 8 bytes
EntrySizeThrows(h, dv) ==
  /\ getUint32(dv, 24) = MAX_VALUE_32BITS
  /\ HasExtra(h, 1)
  /\ Len(h.extraFields[1]) < 8

\* get size
EntrySize(h, dv) ==
  LET size == getUint32(dv, 24)
  IN  IF size = MAX_VALUE_32BITS /\ HasExtra(h, 1) /\ ~EntrySizeThrows(h, dv)
      THEN getBigUint64(h.extraFields[1], 0)
      ELSE size

\* get comment
EntryComment(dv) ==
  LET at == filenameLength(dv) + extraFieldLength(dv) + 46
  IN  Utf8Decode(SubSeq(dv, at + 1, at + commentLength(dv)))

\* a getter that would take the stored month, 1..12, for a month index
LastModifiedMonthFromOne(dv) ==
  LET time == getUint16(dv, 12)
      date == getUint16(dv, 14)
  IN  NewDate(((date \div 512) % 128) + 1980,
              (date \div 32) % 16,
              date % 32,
              (time \div 2048) % 32,
              (time \div 32) % 64,
              (time % 32) * 2,
              0)

\* get lastModified: t = getUint32(12, true), read here as its two 16-bit halves
EntryLastModified(dv) ==
  LET time == getUint16(dv, 12)
      date == getUint16(dv, 14)
  IN  NewDate(((date \div 512) % 128) + 1980,
              ((date \div 32) % 16) - 1,
              date % 32,
              (time \div 2048) % 32,
              (time \div 32) % 64,
              (time % 32) * 2,
              0)

\* get name, for a handle whose #name may be cached
EntryName(h, dv) ==
  IF h.name # Undefined THEN h.name.value
  ELSE IF bitFlag(dv) = 0 /\ HasExtra(h, 28789)
       THEN Utf8Decode(Slice(h.extraFields[28789], 5, Len(h.extraFields[28789])))
       ELSE Utf8Decode(SubSeq(dv, 47, 46 + filenameLength(dv)))

\* get directory
EntryDirectory(h, dv) ==
  \/ (dv[39] \div 16) % 2 = 1
  \/ (EntrySize(h, dv) = NumOf(0) /\ EndsWithSlash(EntryName(h, dv)))

(***************************************************************************)
(* Reader: the generator                                                   *)
(***************************************************************************)
HasSignatureAt(bytes, i) ==
  /\ bytes[i + 1] = 80
  /\ bytes[i + 2] = 75
  /\ bytes[i + 3] = 5
  /\ bytes[i + 4] = 6

\* doSeek(length): where in the file the record found starts, or -1 for null
doSeek(file, length) ==
  LET from == Len(file) - length
      bytes == Slice(file, from, Len(file))
      found == {i \in 0..(Len(bytes) - EOCDR_MIN) : HasSignatureAt(bytes, i)}
  IN  IF found = {} THEN -1
      ELSE Max(from, 0) + (CHOOSE i \in found : \A j \in found : j <= i)

\* (await doSeek(EOCDR_MIN)) || (await doSeek(Math.min(EOCDR_MAX, file.size)))
SeekEnd(file) ==
  IF doSeek(file, EOCDR_MIN) >= 0 THEN doSeek(file, EOCDR_MIN)
  ELSE doSeek(file, Min(EOCDR_MAX, Len(file)))

\* Number(getBigInt64(...)) < 0
IsNegative(n) == n[8] >= 128

\* the isZip64 branch: [fileslength, centralDirSize, centralDirOffset] read from
\* the ZIP64 record the locator names, and ERR_RANGE as error when a view is
\* too short
ReadZip64(file, byteLength) ==
  LET l == (-byteLength) - 20
      locator == Slice(file, l, -byteLength)
      relativeOffset == getBigUint64(locator, 8)
      record == IF Len(locator) < 20 THEN <<>>
                ELSE Slice(file, IF IsNegative(relativeOffset)
                                 THEN 0 ELSE NumToInt(relativeOffset), l)
  IN  IF Len(locator) < 20 \/ Len(record) < 56
      THEN [error |-> ERR_RANGE, fileslength |-> NumOf(0),
            centralDirSize |-> NumOf(0), centralDirOffset |-> NumOf(0)]
      ELSE [error |-> NoError,
            fileslength |-> getBigUint64(record, 32),
            centralDirSize |-> getBigUint64(record, 40),
            centralDirOffset |-> getBigUint64(record, 48)]

\* Reader(file) up to its for loop
ReaderOpen(file) ==
  /\ rstate = "idle"
  /\ blob' = file
  /\ rnext' = [i |-> 0, index |-> 0]
  /\ handles' = <<>>
  /\ IF Len(file) < EOCDR_MIN \/ SeekEnd(file) < 0
     THEN /\ rstate' = "failed"
          /\ rerror' = ERR_BAD_FORMAT
          /\ UNCHANGED <<cdbytes, fileslength>>
     ELSE LET at == SeekEnd(file)
              dv == SubSeq(file, at + 1, at + EOCDR_MIN)
              isZip64 == getUint32(dv, 16) = MAX_VALUE_32BITS
              z == IF isZip64 THEN ReadZip64(file, Len(dv))
                   ELSE [error |-> NoError,
                         fileslength |-> NumOf(getUint16(dv, 8)),
                         centralDirSize |-> getUint32(dv, 12),
                         centralDirOffset |-> getUint32(dv, 16)]
          IN  IF z.error # NoError
              THEN /\ rstate' = "failed"
                   /\ rerror' = ERR_RANGE
                   /\ UNCHANGED <<cdbytes, fileslength>>
              ELSE IF IsNegative(z.centralDirOffset)
                      \/ NumToInt(z.centralDirOffset) >= Len(file)
              THEN /\ rstate' = "failed"
                   /\ rerror' = ERR_BAD_FORMAT
                   /\ UNCHANGED <<cdbytes, fileslength>>
              ELSE /\ rstate' = "iterating"
                   /\ rerror' = rerror
                   /\ fileslength' = (IF IsNegative(z.fileslength) THEN 0
                                      ELSE NumToInt(z.fileslength))
                   /\ cdbytes' =
                        LET start == NumToInt(z.centralDirOffset)
                            end == NumToInt(NumAdd(z.centralDirOffset,
                                                   z.centralDirSize))
                        IN  Slice(file, start, IF IsNegative(z.centralDirSize)
                                               THEN 0 ELSE end)
  /\ UNCHANGED <<zone, wvars, tasks>>

\* one turn of Reader's for loop, or its end
ReaderNext ==
  /\ rstate = "iterating"
  /\ IF rnext.i >= fileslength
     THEN /\ rstate' = "done"
          /\ UNCHANGED <<rerror, rnext, handles>>
     ELSE LET index == rnext.index
              size == uint16e(cdbytes, index + 28) + uint16e(cdbytes, index + 30)
                      + uint16e(cdbytes, index + 32) + 46
              entry == NewEntry(cdbytes, index, size)
          IN  IF index + size > Len(cdbytes)
              THEN /\ rstate' = "failed"
                   /\ rerror' = ERR_INVALID_ZIP
                   /\ UNCHANGED <<rnext, handles>>
              ELSE IF entry.error # NoError
              THEN /\ rstate' = "failed"
                   /\ rerror' = entry.error
                   /\ UNCHANGED <<rnext, handles>>
              ELSE /\ handles' = Append(handles, entry)
                   /\ rnext' = [i |-> rnext.i + 1, index |-> index + size]
                   /\ UNCHANGED <<rstate, rerror>>
  /\ UNCHANGED <<zone, wvars, blob, cdbytes, fileslength, tasks>>


(***************************************************************************)
(* Reader: the read operations of an Entry                                 *)
(***************************************************************************)
ReadOps == {"rawBytes", "bytes", "arrayBuffer", "text", "stream", "file"}

\* the view of the k-th handle yielded
DataViewOf(k) == ViewBytes(cdbytes, handles[k])

\* .then(bytes => uint16e(bytes, 0) + uint16e(bytes, 2) + 30) on the four bytes
\* at this.offset + 26
FetchLocalFileOffset(file, entryOffset) ==
  LET bytes == Slice(file, entryOffset + 26, entryOffset + 30)
  IN  uint16e(bytes, 0) + uint16e(bytes, 2) + 30

\* this.#fileLike.slice(start, end) of #getRawChunk
RawChunk(file, entryOffset, localFileOffset, csize) ==
  LET start == entryOffset + localFileOffset
  IN  Slice(file, start, start + csize)

RECURSIVE BlobStream(_)
\* Blob.stream(): the bytes in chunks of BlobChunk bytes
BlobStream(bytes) ==
  IF bytes = <<>> THEN <<>>
  ELSE <<SubSeq(bytes, 1, Min(BlobChunk, Len(bytes)))>>
       \o BlobStream(SubSeq(bytes, Min(BlobChunk, Len(bytes)) + 1, Len(bytes)))

\* what the operation op of handle h resolves with, given the raw chunk
ReadResult(op, raw, h, dv) ==
  CASE op = "rawBytes" -> [kind |-> "Blob", bytes |-> raw]
    [] op = "bytes" -> [kind |-> "Uint8Array", bytes |-> raw]
    [] op = "arrayBuffer" -> [kind |-> "ArrayBuffer", bytes |-> raw]
    [] op = "text" -> [kind |-> "string", text |-> Utf8Decode(raw)]
    [] op = "stream" -> [kind |-> "ReadableStream", chunks |-> BlobStream(raw)]
    [] op = "file" -> [kind |-> "File", bytes |-> raw, name |-> EntryName(h, dv),
                       lastModified |-> EntryLastModified(dv)]

\* a TypeError raised by the platform
ERR_TYPE == "TypeError"

\* what new DecompressionStream('gzip') makes of GZIP_HEADER, the raw chunk
\* and the crc32 and size trailer: it errors, or it delivers decoded bytes
InflateOutcomes == {[ok |-> FALSE, bytes |-> <<>>], [ok |-> TRUE, bytes |-> <<120>>]}

\* String(n) of a byte, as code points
ByteToString(n) ==
  IF n < 10 THEN <<48 + n>>
  ELSE IF n < 100 THEN <<48 + (n \div 10), 48 + (n % 10)>>
  ELSE <<48 + (n \div 100), 48 + ((n \div 10) % 10), 48 + (n % 10)>>

RECURSIVE BlobOfChunk(_)
\* new Blob(chunk) of a Uint8Array: the array is taken for the sequence of
\* parts, so every byte becomes the string of its decimal digits
BlobOfChunk(chunk) ==
  IF chunk = <<>> THEN <<>>
  ELSE ByteToString(Head(chunk)) \o BlobOfChunk(Tail(chunk))

\* what the operation op of handle h settles with when compressionMethod is
\* not 0: bytes() asks the readable side of a TransformStream for a BYOB
\* reader, the others consume what the DecompressionStream delivers
DecodedResult(op, raw, h, dv, inflated) ==
  CASE op = "rawBytes" -> [kind |-> "Blob", bytes |-> raw]
    [] op \in {"bytes", "arrayBuffer"} -> [kind |-> "error", error |-> ERR_TYPE]
    [] op = "stream" ->
         [kind |-> "ReadableStream",
          chunks |-> IF inflated.ok THEN <<inflated.bytes>> ELSE <<>>,
          errored |-> ~inflated.ok]
    [] op = "text" ->
         IF inflated.ok THEN [kind |-> "string", text |-> Utf8Decode(inflated.bytes)]
         ELSE [kind |-> "error", error |-> ERR_TYPE]
    [] op = "file" ->
         IF inflated.ok
         THEN [kind |-> "File", bytes |-> BlobOfChunk(inflated.bytes),
               name |-> EntryName(h, dv), lastModified |-> EntryLastModified(dv)]
         ELSE [kind |-> "error", error |-> ERR_TYPE]

\* a handle that would cache the absolute start of the data, which the cached
\* path then adds the entry offset to once more
StoredAbsoluteStart(entryOffset, fetched) == entryOffset + fetched

\* what `this.#localFileOffset ??= await ...` leaves in the field once the
\* header bytes have arrived
StoredLocalFileOffset(entryOffset, fetched) == fetched

\* a handle that would mark the field as filled before the header bytes arrive
PlaceholderWhilePending(current) == Defined(0)

\* the field while the header bytes are awaited: ??= assigns after the await
WhilePending(current) == current

\* a read operation is called on the k-th handle and runs to its first await
ReadCall(k, op) ==
  /\ rstate \in {"iterating", "done"}
  /\ k \in 1..Len(handles)
  /\ Len(tasks) < MaxReads
  /\ LET h == handles[k]
         dv == DataViewOf(k)
         entryOffset == NumToInt(EntryOffset(dv))
         csize == NumToInt(compressedSize(h, dv))
     IN  IF h.localFileOffset = Undefined
         THEN /\ tasks' = Append(tasks,
                   [handle |-> k, op |-> op, phase |-> "header", cached |-> FALSE,
                    entryOffset |-> entryOffset, raw |-> <<>>, result |-> Undefined])
              /\ handles' = [handles EXCEPT
                               ![k].localFileOffset = WhilePending(@)]
         ELSE /\ tasks' = Append(tasks,
                   [handle |-> k, op |-> op, phase |-> "raw", cached |-> TRUE,
                    entryOffset |-> entryOffset,
                    raw |-> RawChunk(blob, entryOffset, h.localFileOffset.value,
                                     csize),
                    result |-> Undefined])
              /\ handles' = handles
  /\ UNCHANGED <<zone, wvars, blob, rstate, rerror, cdbytes, rnext, fileslength>>

\* the t-th read operation called resumes from the await it is suspended at
ReadStep(t) ==
  /\ t \in 1..Len(tasks)
  /\ tasks[t].phase # "done"
  /\ LET task == tasks[t]
         k == task.handle
         h == handles[k]
         dv == DataViewOf(k)
     IN  IF task.phase = "header"
         THEN LET fetched == FetchLocalFileOffset(blob, task.entryOffset)
                  csize == NumToInt(compressedSize(h, dv))
              IN  /\ handles' = [handles EXCEPT
                                   ![k].localFileOffset =
                                      Defined(StoredLocalFileOffset(
                                                task.entryOffset, fetched))]
                  /\ tasks' = [tasks EXCEPT
                       ![t].phase = "raw",
                       ![t].raw = RawChunk(blob, NumToInt(EntryOffset(dv)),
                                           fetched, csize)]
         ELSE \E inflated \in InflateOutcomes :
                LET result == IF compressionMethod(dv) = 0
                              THEN ReadResult(task.op, task.raw, h, dv)
                              ELSE DecodedResult(task.op, task.raw, h, dv, inflated)
                IN  /\ tasks' = [tasks EXCEPT ![t].phase = "done",
                                              ![t].result = result]
                    /\ handles' = IF result.kind = "File"
                                  THEN [handles EXCEPT
                                          ![k].name = Defined(EntryName(h, dv))]
                                  ELSE handles
  /\ UNCHANGED <<zone, wvars, blob, rstate, rerror, cdbytes, rnext, fileslength>>


(***************************************************************************)
(* Inputs                                                                  *)
(***************************************************************************)
\* what Date.now() returns while the archive is written
Now == DateUTC(2024, 4, 17, 10, 20, 30, 400)

\* an entry as the tests hand it to the Writer: { name, lastModified, directory,
\* comment, stream() }; chunks are what the stream delivers and fails tells
\* whether it then errors instead of closing
File(name, chunks) ==
  [name |-> name, lastModified |-> Undefined, directory |-> FALSE,
   comment |-> <<>>, hasStream |-> TRUE, chunks |-> chunks, fails |-> FALSE]

FileA == File(<<97>>, <<<<1, 2>>, <<3>>>>)
FileB == [File(<<98>>, <<>>) EXCEPT !.lastModified = DateUTC(2001, 1, 3, 4, 5, 6, 0)]
\* " a": the name of FileA once trimmed
FileSpaceA == File(<<32, 97>>, <<<<7>>>>)
\* { name: 'd', directory: true }
Folder == [File(<<100>>, <<>>) EXCEPT !.directory = TRUE, !.hasStream = FALSE]
\* comment 'x'
FileC == [File(<<99>>, <<<<4>>>>) EXCEPT !.comment = <<120>>]
\* comment 'note'
FileE == [File(<<101>>, <<<<5, 6>>>>) EXCEPT !.comment = <<110, 111, 116, 101>>]
FileF == [File(<<102>>, <<<<9>>>>) EXCEPT !.fails = TRUE]

\* mix(new File(['\b'], 'h'), { directory: true }): a directory entry that
\* supplies a stream, as the directory test builds it, here with one byte in it
FolderWithData == [File(<<104>>, <<<<8>>>>) EXCEPT !.directory = TRUE]

Entries == {FileA, FileB, FileSpaceA, Folder, FolderWithData, FileC, FileE, FileF}

\* the entries whose handles the read operations are studied on
\* (195, 169 is the UTF-8 encoding of U+00E9)
FileG == File(<<103, 103>>, <<<<195, 169>>, <<10>>>>)
ReadEntries == {FileA, FileG}

(***************************************************************************)
(* Specification: an archive is written, then read                         *)
(***************************************************************************)
\* the state after `new Writer()`, before any Reader is made
Fresh ==
  /\ zone \in Zones
  /\ offset = NumOf(0)
  /\ files = <<>>
  /\ filenames = <<>>
  /\ cur = NoEntry
  /\ out = <<>>
  /\ outlog = <<>>
  /\ wstatus = "open"
  /\ werror = NoError
  /\ accepted = <<>>
  /\ rejected = {}
  /\ pulled = 0
  /\ rstate = "idle"
  /\ rerror = NoError
  /\ cdbytes = <<>>
  /\ rnext = [i |-> 0, index |-> 0]
  /\ fileslength = 0
  /\ handles = <<>>
  /\ tasks = <<>>

Init == Fresh /\ blob = <<>>

\* controller.enqueue(entry) of the source that feeds the Writer
Transform == \E e \in Entries : TransformBegin(e, Now)

\* new Response(stream.pipeThrough(new Writer())).blob(), then Reader(blob)
ReadArchive ==
  /\ wstatus = "closed"
  /\ ReaderOpen(Concat(out))

Next ==
  \/ Transform
  \/ ReadChunk
  \/ ReadDone
  \/ ReadFail
  \/ Flush
  \/ ReadArchive
  \/ ReaderNext

Spec == Init /\ [][Next]_vars


(***************************************************************************)
(* Vocabulary of the properties                                            *)
(***************************************************************************)
\* the byte content c of an input entry
Content(e) == IF e.hasStream THEN Concat(e.chunks) ELSE <<>>

\* the archive was written to its end and the Reader has stopped on it
ArchiveRead == wstatus = "closed" /\ rstate \in {"done", "failed"}

NameOf(k) == EntryName(handles[k], DataViewOf(k))
CommentOf(k) == EntryComment(DataViewOf(k))
LastModifiedOf(k) == EntryLastModified(DataViewOf(k))

\* what bytes() of the k-th handle resolves with when it runs alone
BytesOf(k) ==
  LET dv == DataViewOf(k)
      entryOffset == NumToInt(EntryOffset(dv))
  IN  RawChunk(blob, entryOffset, FetchLocalFileOffset(blob, entryOffset),
               NumToInt(compressedSize(handles[k], dv)))

\* C1 (round-trip identity): once an archive of entries with pairwise-distinct
\* names has been written and read, every input entry has a handle whose
\* bytes() equals the entry's content and whose name equals the input name.
C1_RoundTrip ==
  ArchiveRead =>
    \A i \in 1..Len(accepted) :
      \E k \in 1..Len(handles) :
        /\ NameOf(k) = accepted[i].name
        /\ BytesOf(k) = Content(accepted[i])

\* C2 (order preservation): the Reader yields exactly as many handles as the
\* Writer accepted entries, and the k-th handle is the k-th entry accepted.
C2_OrderPreserved ==
  ArchiveRead =>
    /\ Len(handles) = Len(accepted)
    /\ \A k \in 1..Len(handles) :
         /\ NameOf(k) = NormalizedName(accepted[k])
         /\ BytesOf(k) = Content(accepted[k])

\* the chunks enqueued for the entry of normalized name n
ChunksOf(n) == {p \in 1..Len(out) : outlog[p].name = n}

\* C3 (duplicate rejection): when an entry's normalized name is already
\* present, the write fails with the duplicate-name error, no byte of the
\* duplicate is emitted and no central directory or end record is emitted.
C3_DuplicateRejected ==
  rejected # {} =>
    /\ wstatus = "errored"
    /\ werror = ERR_FILE_EXISTS
    /\ \A n \in rejected :
         Cardinality({p \in ChunksOf(n) : outlog[p].kind = "local"}) = 1
    /\ \A p \in 1..Len(out) : outlog[p].kind # "central"


\* a read of the source of the entry being written has failed
SourceFailed == cur # NoEntry /\ cur.fails /\ cur.rest = <<>> /\ wstatus = "errored"

\* C4 (source-stream failure is fatal): a failed read of an entry's stream
\* fails the Writer's output with that error, and afterwards neither that
\* entry's data descriptor nor a central directory or end record is emitted.
C4_SourceFailureFatal ==
  SourceFailed =>
    /\ werror = ERR_SOURCE
    /\ \A p \in 1..Len(out) :
         /\ outlog[p].kind # "central"
         /\ ~(outlog[p].kind = "descriptor" /\ outlog[p].name = cur.name)
    /\ Slice(out[Len(out)], 0, 4) \notin {<<80, 75, 7, 8>>, <<80, 75, 1, 2>>}

C4_Witness == SourceFailed /\ Len(accepted) = 2 /\ Len(out) > 4

\* the chunks one accepted entry is due: its local header, its data chunks
\* and its data descriptor
DueChunks(e) ==
  LET n == NormalizedName(e)
      data == IF e.hasStream THEN e.chunks ELSE <<>>
  IN  <<[kind |-> "local", name |-> n, bytes |-> <<80, 75, 3, 4>>]>>
      \o [j \in 1..Len(data) |-> [kind |-> "data", name |-> n, bytes |-> data[j]]]
      \o <<[kind |-> "descriptor", name |-> n, bytes |-> <<80, 75, 7, 8>>]>>

RECURSIVE DueSoFar(_)
DueSoFar(es) == IF es = <<>> THEN <<>> ELSE DueChunks(Head(es)) \o DueSoFar(Tail(es))

RECURSIVE DirectoryNames(_, _)
\* the names of the central directory headers that start at index of a chunk,
\* one after another, up to the first thing that is not such a header
DirectoryNames(data, index) ==
  IF Slice(data, index, index + 4) # <<80, 75, 1, 2>> THEN <<>>
  ELSE LET size == 46 + uint16e(data, index + 28) + uint16e(data, index + 30)
                   + uint16e(data, index + 32)
       IN  <<SubSeq(data, index + 47, index + 46 + uint16e(data, index + 28))>>
           \o DirectoryNames(data, index + size)

\* the chunk p of the output is what the p-th due chunk says
ChunkAsDue(p, due) ==
  /\ outlog[p].kind = due.kind
  /\ outlog[p].name = due.name
  /\ IF due.kind = "data" THEN out[p] = due.bytes
     ELSE SubSeq(out[p], 1, 4) = due.bytes
  /\ due.kind = "local" =>
       SubSeq(out[p], 31, Len(out[p])) = Utf8Encode(due.name)

\* C5 (emission order): the output is, for each accepted entry in acceptance
\* order, its local header, its data chunks unchanged and in source order and
\* its data descriptor, never interleaved with another entry's; then one chunk
\* holding all central directory headers in acceptance order and, after them,
\* the end record.
C5_EmissionOrder ==
  LET due == DueSoFar(accepted)
      n == IF wstatus = "closed" THEN Len(out) - 1 ELSE Len(out)
  IN  /\ n <= Len(due)
      /\ \A p \in 1..n : ChunkAsDue(p, due[p])
      /\ wstatus = "closed" =>
           /\ n = Len(due)
           /\ outlog[Len(out)].kind = "central"
           /\ DirectoryNames(out[Len(out)], 0)
                = [k \in 1..Len(accepted) |->
                     Utf8Encode(NormalizedName(accepted[k]))]
           /\ SubSeq(out[Len(out)], Len(out[Len(out)]) - 21,
                     Len(out[Len(out)]) - 18) = <<80, 75, 5, 6>>
      /\ (wstatus = "open" /\ cur = NoEntry) => n = Len(due)

C5_Witness ==
  /\ wstatus = "closed"
  /\ Len(accepted) = 2
  /\ \E k \in 1..2 : Len(accepted[k].chunks) = 2

\* C9 (comment round-trip): reading an archive of entries written with
\* comments succeeds, and every handle's comment equals the comment its entry
\* was written with.
C9_CommentRoundTrip ==
  ArchiveRead =>
    /\ rstate = "done"
    /\ Len(handles) = Len(accepted)
    /\ \A k \in 1..Len(handles) : CommentOf(k) = accepted[k].comment


(***************************************************************************)
(* Specification: the handles of a written archive are read                *)
(***************************************************************************)
TransformRead == \E e \in ReadEntries : TransformBegin(e, Now)

ReadOperation == \E k \in 1..MaxEntries, op \in ReadOps : ReadCall(k, op)

ReadResume == \E t \in 1..MaxReads : ReadStep(t)

NextRead ==
  \/ TransformRead
  \/ ReadChunk
  \/ ReadDone
  \/ Flush
  \/ ReadArchive
  \/ ReaderNext
  \/ ReadOperation
  \/ ReadResume

SpecRead == Init /\ [][NextRead]_vars

\* the read operations that have resolved
Resolved == {t \in 1..Len(tasks) : tasks[t].phase = "done"}

\* C7 (reads are idempotent and restartable): on one handle, an operation
\* called again resolves with byte-equal content, stream() again delivers the
\* same chunks, and the blob stays what the Writer produced.
C7_ReadsIdempotent ==
  /\ rstate # "idle" => blob = Concat(out)
  /\ \A t1, t2 \in Resolved :
       (tasks[t1].handle = tasks[t2].handle /\ tasks[t1].op = tasks[t2].op)
         => tasks[t1].result = tasks[t2].result

\* stream() resolved twice on the second handle, the second call made after
\* the data start was cached
C7_Witness ==
  /\ Resolved = {1, 2}
  /\ tasks[1].handle = 2 /\ tasks[2].handle = 2
  /\ tasks[1].op = "stream" /\ tasks[2].op = "stream"
  /\ tasks[2].cached
  /\ Len(tasks[2].result.chunks) = 2

\* what op resolves with on the k-th handle when the reads run one after another
Sequentially(k, op) == ReadResult(op, BytesOf(k), handles[k], DataViewOf(k))

\* C8 (independence under interleaving): however the read operations on the
\* handles of one archive interleave, each resolves with what it resolves
\* with when the reads run one after another.
C8_InterleavingIndependent ==
  \A t \in Resolved : tasks[t].result = Sequentially(tasks[t].handle, tasks[t].op)

\* two reads of one entry, both called before its data start was cached, the
\* second resolved while the first is still under way
C8_Witness ==
  /\ Len(tasks) = 2
  /\ tasks[1].handle = tasks[2].handle
  /\ ~tasks[1].cached /\ ~tasks[2].cached
  /\ tasks[1].phase = "raw"
  /\ tasks[2].phase = "done"
  /\ Len(handles) = 2


(***************************************************************************)
(* Specification: entries of given modification times are written and read *)
(***************************************************************************)
\* <<year, monthIndex, day>> and <<hours, minutes, seconds, ms>>, in UTC
DateDays == {<<1979, 11, 31>>, <<1980, 0, 1>>, <<2000, 1, 29>>, <<2021, 2, 28>>,
             <<2021, 9, 31>>, <<2107, 11, 31>>, <<2108, 0, 1>>}
DateTimes == {<<0, 0, 0, 0>>, <<0, 30, 0, 0>>, <<1, 30, 0, 0>>, <<12, 34, 57, 0>>,
              <<22, 59, 59, 999>>, <<23, 0, 0, 0>>, <<23, 59, 58, 1>>}
Dates == {DateUTC(d[1], d[2], d[3], t[1], t[2], t[3], t[4]) :
            d \in DateDays, t \in DateTimes}

\* { name: 't', lastModified, stream() } with an empty stream
DatedFile(date) == [File(<<116>>, <<>>) EXCEPT !.lastModified = date]

TransformDated == \E date \in Dates : TransformBegin(DatedFile(date), Now)

NextDate ==
  \/ TransformDated
  \/ ReadDone
  \/ Flush
  \/ ReadArchive
  \/ ReaderNext

SpecDate == Init /\ [][NextDate]_vars

\* the local year of a written value lies in what the DOS date can hold
YearInRange(w) == getFullYear(w) \in 1980..2107

\* the k-th handle reports the value its entry was written with to within 2 s,
\* and exactly when that value is a whole even second
Faithful(k) ==
  LET w == accepted[k].lastModified
      r == LastModifiedOf(k)
  IN  /\ TimeDiff(r, w) < 2000
      /\ TimeDiff(w, r) < 2000
      /\ (getSeconds(w) % 2 = 0 /\ getMilliseconds(w) = 0) => r = w

\* the host's zone reads the local time of w back as w: no transition of the
\* zone repeats that local time
LocalTimeUnrepeated(w) ==
  NewDate(getFullYear(w), getMonth(w), getDate(w), getHours(w), getMinutes(w),
          getSeconds(w), getMilliseconds(w)) = w

\* C10 as stated (timestamp fidelity): every entry written with a lastModified
\* whose local year lies in 1980..2107 is reported with a lastModified less
\* than 2000 ms away, and equal when the written value is a whole even second.
C10_TimestampFidelity ==
  (ArchiveRead /\ rstate = "done") =>
    \A k \in 1..Len(handles) :
      (accepted[k].lastModified # Undefined /\ YearInRange(accepted[k].lastModified))
        => Faithful(k)

\* C10 amended: the same, for the written values whose local time no
\* transition of the host's time zone repeats.
C10_TimestampFidelityUnrepeated ==
  (ArchiveRead /\ rstate = "done") =>
    \A k \in 1..Len(handles) :
      (/\ accepted[k].lastModified # Undefined
       /\ YearInRange(accepted[k].lastModified)
       /\ LocalTimeUnrepeated(accepted[k].lastModified))
        => Faithful(k)

\* on the host with summer time, a value of the year 2107 with an odd second
\* and 999 ms is reported 1999 ms early
C10_Witness ==
  /\ ArchiveRead
  /\ rstate = "done"
  /\ zone = "Europe/Berlin"
  /\ Len(handles) = 1
  /\ getFullYear(accepted[1].lastModified) = 2107
  /\ LocalTimeUnrepeated(accepted[1].lastModified)
  /\ TimeDiff(accepted[1].lastModified, LastModifiedOf(1)) = 1999

(***************************************************************************)
(* Specification: the Reader is given an arbitrary blob                    *)
(***************************************************************************)
\* an end of central directory record without comment
EndRecord(count, size, start) ==
  <<80, 75, 5, 6>> \o Zeros(4) \o LE16(count) \o LE16(count)
  \o LE32(NumOf(size)) \o LE32(NumOf(start)) \o LE16(0)

\* a central directory header of an entry named 'a' and nothing else
BareHeader ==
  SetBytes(SetBytes(Zeros(46), 0, <<80, 75, 1, 2>>), 28, LE16(1)) \o <<97>>

\* how many bytes follow the end record
Trailing == {0, 1, 5, 65535, 65536, 65537}

Blobs ==
  {Zeros(n) : n \in 0..30}
  \cup {Zeros(p) \o EndRecord(0, 0, 0) \o Zeros(t) : p \in 0..2, t \in Trailing}
  \cup {Zeros(n) \o <<80, 75, 5, 6>> \o Zeros(m) : n \in {0, 20}, m \in {0, 6, 17}}
  \cup {EndRecord(0, 0, 22), Zeros(3) \o EndRecord(0, 0, 25)}
  \cup {BareHeader \o EndRecord(c, 47, 0) : c \in 1..2}
  \cup {<<1>> \o BareHeader \o EndRecord(1, 47, 0)}

InitBlob == Fresh /\ blob \in Blobs

\* Reader(blob) on a blob no Writer made
ReadBlob ==
  /\ wstatus = "open"
  /\ ReaderOpen(blob)

NextBlob ==
  \/ ReadBlob
  \/ ReaderNext

SpecBlob == InitBlob /\ [][NextBlob]_vars

\* the end record signature lies within the last n bytes of the file
SignatureWithin(file, n) ==
  \E i \in (Len(file) - n)..(Len(file) - 4) : HasSignatureAt(file, i)

\* C6 as stated: the Reader fails with the bad-format error, having yielded no
\* entry, whenever the blob is shorter than 22 bytes or holds no end record
\* signature in its last min(22 + 65535, size) bytes.
C6_BadFormat ==
  (/\ rstate # "idle"
   /\ \/ Len(blob) < 22
      \/ ~SignatureWithin(blob, Min(22 + 65535, Len(blob))))
    => (rstate = "failed" /\ rerror = ERR_BAD_FORMAT /\ handles = <<>>)


(***************************************************************************)
(* Directory entries                                                       *)
(***************************************************************************)
\* the accepted entries flagged as directories, by recorded name
DirectoriesAccepted ==
  {NormalizedName(accepted[i]) : i \in {j \in 1..Len(accepted) : accepted[j].directory}}

\* C11 (directory entries): for an input entry with directory = true the
\* recorded name ends with '/', no data chunk is emitted between its local
\* header and its data descriptor, its central header has bit 4 of the
\* external attributes set and the Reader reports directory = true.
C11_DirectoryEntries ==
  /\ \A p \in 1..Len(out) :
       outlog[p].name \in DirectoriesAccepted =>
         /\ EndsWithSlash(outlog[p].name)
         /\ outlog[p].kind # "data"
  /\ rstate \in {"iterating", "done"} =>
       \A k \in 1..Len(handles) :
         NameOf(k) \in DirectoriesAccepted =>
           /\ (DataViewOf(k)[39] \div 16) % 2 = 1
           /\ EntryDirectory(handles[k], DataViewOf(k))


(***************************************************************************)
(* Specification: archives beyond 4 GiB                                    *)
(***************************************************************************)
\* new VirtualLoremIpsumFile(size, name): a File whose stream() delivers size
\* bytes in chunks of at most 65536; size is a Num
VirtualLoremIpsumFile(size, name) ==
  [name |-> name, lastModified |-> Undefined, directory |-> FALSE,
   comment |-> <<>>, hasStream |-> TRUE, size |-> size]

\* 0x80000000, 0xFFFFFFFF and 0x100000005 bytes
Bulk2G == VirtualLoremIpsumFile(<<0, 0, 0, 128, 0, 0, 0, 0>>, <<112>>)
Bulk4G == VirtualLoremIpsumFile(MAX_VALUE_32BITS, <<113>>)
Bulk5G == VirtualLoremIpsumFile(<<5, 0, 0, 0, 1, 0, 0, 0>>, <<114>>)
BulkEntries == {Bulk2G, Bulk4G, Bulk5G}

\* what zipObject.crc.get() returns after the chunks of a bulk stream were
\* appended: the CRC-32 of its content, here any of two values
BulkCrcs == {<<17, 34, 51, 68>>, <<0, 0, 0, 128>>}

\* the Crc32 register that get() maps to v
CrcRegister(v) == <<255 - v[1], 255 - v[2], 255 - v[3], 255 - v[4]>>

\* the zipObject after the read loop has taken size bytes whose CRC-32 is crc
ReadAll(z, size, crc) ==
  [z EXCEPT !.crc = CrcRegister(crc),
            !.uncompressedLength = size,
            !.compressedLength = size]

\* the zipObject after the ZIP64 decision and the header stores that follow
\* the read loop
Finished(z) ==
  [z EXCEPT !.zip64 = EntryNeedsZip64(z),
            !.header = FinishedHeader(z, EntryNeedsZip64(z))]

\* transform(entry, ctrl) from its start to its end for an entry whose stream
\* delivers e.size bytes: the turns of the read loop add up to e.size in both
\* lengths; the data chunks are not kept in out, outlog records their place
TransformBulk(e, crc, now) ==
  /\ wstatus = "open"
  /\ cur = NoEntry
  /\ Len(accepted) < MaxEntries
  /\ LET name == NormalizedName(e)
         zipObject == Finished(ReadAll(NewZipObject(e, Utf8Encode(name), now),
                                       e.size, crc))
     IN  IF name \in DOMAIN files
         THEN /\ wstatus' = "errored"
              /\ werror' = DuplicateError
              /\ rejected' = rejected \cup {name}
              /\ UNCHANGED <<offset, files, filenames, out, outlog, accepted>>
         ELSE /\ filenames' = Append(filenames, name)
              /\ files' = files @@ (name :> zipObject)
              /\ accepted' = Append(accepted, e)
              /\ offset' = NumAdd(NumAdd(offset, NumOf(30 + Len(Utf8Encode(name)))),
                                  NumAdd(e.size, NumOf(16)))
              /\ out' = out \o <<LocalHeader(NewHeader(now, Utf8Encode(name)),
                                              Utf8Encode(name)),
                                  <<>>,
                                  SetBytes(NewFooter, 4,
                                           SubSeq(files'[name].header, 11, 22))>>
              /\ outlog' = outlog \o <<[kind |-> "local", name |-> name],
                                       [kind |-> "bulk", name |-> name],
                                       [kind |-> "descriptor", name |-> name]>>
              /\ UNCHANGED <<wstatus, werror, rejected>>
  /\ UNCHANGED <<cur, rvars, tasks, zone, pulled>>

TransformLarge == \E e \in BulkEntries, crc \in BulkCrcs : TransformBulk(e, crc, Now)

\* the entries of ordinary size written before or after the bulk ones
SmallEntries == {FileA, Folder}
TransformSmall == \E e \in SmallEntries : TransformBegin(e, Now)

NextLarge ==
  \/ TransformLarge
  \/ TransformSmall
  \/ ReadChunk
  \/ ReadDone
  \/ Flush

SpecLarge == Init /\ [][NextLarge]_vars


(***************************************************************************)
(* ZIP64                                                                   *)
(***************************************************************************)
\* n > 0xFFFFFFFF
Exceeds32(n) == NumGT(n, <<255, 255, 255, 255, 0, 0, 0, 0>>)

\* flush() may run: the Writer is open and no transform() is pending
FlushDue == wstatus = "open" /\ cur = NoEntry

\* C12 (per-entry ZIP64 decision): when flush runs, the zip64 flag of every
\* recorded entry, with or without a data stream, is true exactly when its
\* compressed length, uncompressed length or local offset exceeds 0xFFFFFFFF.
C12_EntryZip64Decision ==
  FlushDue =>
    \A n \in DOMAIN files :
      files[n].zip64 <=> \/ Exceeds32(files[n].compressedLength)
                         \/ Exceeds32(files[n].uncompressedLength)
                         \/ Exceeds32(files[n].offset)


\* the chunk flush() enqueues when it runs in this state
Flushed == FlushData(files, filenames, offset)

\* the four bytes of b at the 0-based index i
Signature(b, i) == Slice(b, i, i + 4)

\* data ends with a ZIP64 end of central directory record (56 bytes), its
\* locator (20 bytes) and the end of central directory record (22 bytes)
EndsWithZip64Records(data) ==
  /\ Len(data) >= 98
  /\ Signature(data, Len(data) - 98) = <<80, 75, 6, 6>>
  /\ Signature(data, Len(data) - 42) = <<80, 75, 6, 7>>
  /\ Signature(data, Len(data) - 22) = <<80, 75, 5, 6>>

\* the central directory of the given size is followed by the 22-byte end
\* record and nothing else
EndsWithClassicOnly(data, size) ==
  /\ Len(data) = size + 22
  /\ Signature(data, size) = <<80, 75, 5, 6>>

\* some recorded entry is ZIP64, or the central directory start, its size or
\* the entry count is beyond what the classic end record can hold
PromotionDue ==
  \/ \E n \in DOMAIN files : files[n].zip64
  \/ Exceeds32(offset)
  \/ Exceeds32(NumOf(DirectoryLength(files, filenames)))
  \/ Len(filenames) > 65535

\* C13 (archive ZIP64 promotion): flush emits the ZIP64 end of central
\* directory record and its locator exactly when some recorded entry is ZIP64
\* or the central directory start, its size or the entry count overflows the
\* classic fields; otherwise it emits only the 22-byte classic end record.
C13_ArchivePromotion ==
  FlushDue =>
    /\ PromotionDue <=> EndsWithZip64Records(Flushed)
    /\ ~PromotionDue =>
         EndsWithClassicOnly(Flushed, DirectoryLength(files, filenames))


\* where the central header of the k-th recorded entry starts in Flushed
HeaderIndex(k) == DirectoryLength(files, SubSeq(filenames, 1, k - 1))

\* the central header of the k-th recorded entry as flush() writes it
CentralHeader(k) ==
  Slice(Flushed, HeaderIndex(k), HeaderIndex(k) + RecordLength(files[filenames[k]]))

\* the extra field area of a central header
ExtraArea(h) ==
  Slice(h, 46 + getUint16(h, 28), 46 + getUint16(h, 28) + getUint16(h, 30))

\* the payload of the ZIP64 extended information field (id 0x0001) when the
\* extra field area starts with one, and no bytes otherwise
Zip64Payload(h) ==
  LET area == ExtraArea(h)
  IN  IF Len(area) >= 4 /\ getUint16(area, 0) = 1
      THEN Slice(area, 4, 4 + getUint16(area, 2))
      ELSE <<>>

\* the true 64-bit values of the classic fields of h that hold 0xFFFFFFFF, in
\* the order uncompressed size, compressed size, local offset
SentinelValues(h, z) ==
  (IF Signature(h, 24) = <<255, 255, 255, 255>> THEN z.uncompressedLength ELSE <<>>)
  \o (IF Signature(h, 20) = <<255, 255, 255, 255>> THEN z.compressedLength ELSE <<>>)
  \o (IF Signature(h, 42) = <<255, 255, 255, 255>> THEN z.offset ELSE <<>>)

\* C14 (sentinel recoverability): in every central header flush emits, the
\* true 64-bit values of the classic fields that hold 0xFFFFFFFF stand in the
\* header's ZIP64 extra field, in the order uncompressed size, compressed
\* size, local offset.
C14_SentinelRecoverable ==
  FlushDue =>
    \A k \in 1..Len(filenames) :
      LET h == CentralHeader(k)
          values == SentinelValues(h, files[filenames[k]])
      IN  Slice(Zip64Payload(h), 0, Len(values)) = values


\* the data descriptors emitted so far for entries the Writer still records
DescriptorsEmitted ==
  {p \in 1..Len(out) : outlog[p].kind = "descriptor" /\ outlog[p].name \in DOMAIN files}

\* C15 (data descriptor width): the data descriptor of an entry that is not
\* ZIP64 is 16 bytes (signature, crc32, 32-bit compressed size, 32-bit
\* uncompressed size); that of an entry whose zip64 flag is set is 24 bytes
\* and carries the true 64-bit compressed and uncompressed sizes.
C15_DescriptorWidth ==
  \A p \in DescriptorsEmitted :
    LET z == files[outlog[p].name]
        d == out[p]
    IN  /\ Signature(d, 0) = <<80, 75, 7, 8>>
        /\ IF z.zip64
           THEN /\ Len(d) = 24
                /\ Slice(d, 8, 16) = LE64(z.compressedLength)
                /\ Slice(d, 16, 24) = LE64(z.uncompressedLength)
           ELSE /\ Len(d) = 16
                /\ Slice(d, 8, 12) = LE32(z.compressedLength)
                /\ Slice(d, 12, 16) = LE32(z.uncompressedLength)


\* C16 (version needed): the version-needed-to-extract field of every central
\* header flush emits is 45 when the entry is ZIP64 and 20 otherwise.
C16_VersionNeeded ==
  FlushDue =>
    \A k \in 1..Len(filenames) :
      getUint16(CentralHeader(k), 6) = IF files[filenames[k]].zip64 THEN 45 ELSE 20


\* C17 (record signatures): every record the Writer emits starts with its
\* signature: 50 4B 03 04 (local header), 50 4B 07 08 (data descriptor),
\* 50 4B 01 02 (central header), 50 4B 06 06 (ZIP64 end of central directory),
\* 50 4B 06 07 (its locator) and 50 4B 05 06 (end of central directory).
C17_RecordSignatures ==
  /\ \A p \in 1..Len(out) :
       /\ outlog[p].kind = "local" => Signature(out[p], 0) = <<80, 75, 3, 4>>
       /\ outlog[p].kind = "descriptor" => Signature(out[p], 0) = <<80, 75, 7, 8>>
  /\ FlushDue =>
       LET length == DirectoryLength(files, filenames)
       IN  /\ \A k \in 1..Len(filenames) :
                Signature(CentralHeader(k), 0) = <<80, 75, 1, 2>>
           /\ Signature(Flushed, Len(Flushed) - 22) = <<80, 75, 5, 6>>
           /\ Len(Flushed) > length + 22 =>
                /\ Signature(Flushed, length) = <<80, 75, 6, 6>>
                /\ Signature(Flushed, length + 56) = <<80, 75, 6, 7>>


(***************************************************************************)
(* Specification: archives of another tool are read                        *)
(***************************************************************************)
\* an archive with the one entry 'a' whose headers name the given compression
\* method and whose stored data is data
ForeignArchive(method, data) ==
  LET size == LE32(NumOf(Len(data)))
      local == SetAll(Zeros(31),
                 <<[at |-> 0, src |-> <<80, 75, 3, 4>>],
                   [at |-> 4, src |-> LE16(20)],
                   [at |-> 8, src |-> LE16(method)],
                   [at |-> 18, src |-> size],
                   [at |-> 22, src |-> size],
                   [at |-> 26, src |-> LE16(1)],
                   [at |-> 30, src |-> <<97>>]>>)
      central == SetAll(Zeros(47),
                   <<[at |-> 0, src |-> <<80, 75, 1, 2>>],
                     [at |-> 6, src |-> LE16(20)],
                     [at |-> 10, src |-> LE16(method)],
                     [at |-> 20, src |-> size],
                     [at |-> 24, src |-> size],
                     [at |-> 28, src |-> LE16(1)],
                     [at |-> 46, src |-> <<97>>]>>)
  IN  local \o data \o central \o EndRecord(1, 47, 31 + Len(data))

\* STORE, DEFLATE, BZIP2 and AES
Methods == {0, 8, 12, 99}
ForeignArchives == {ForeignArchive(m, <<1, 2, 3>>) : m \in Methods}

InitForeign == Fresh /\ blob \in ForeignArchives

NextForeign ==
  \/ ReadBlob
  \/ ReaderNext
  \/ ReadOperation
  \/ ReadResume

SpecForeign == InitForeign /\ [][NextForeign]_vars

\* the name of the error the claim expects of the decoding reads
UnsupportedMethod == "UnsupportedMethod"

\* bytes, arrayBuffer, text, stream and file
DecodingReads == ReadOps \ {"rawBytes"}

\* the read operations that have settled on a handle whose compression
\* method is neither STORE nor DEFLATE
SettledUnsupported ==
  {t \in 1..Len(tasks) :
     /\ tasks[t].phase = "done"
     /\ tasks[t].op \in DecodingReads
     /\ compressionMethod(DataViewOf(tasks[t].handle)) \notin {0, 8}}

\* C18 (unsupported methods): on a handle whose compression method is neither
\* 0 nor 8, every decoding read (bytes, arrayBuffer, text, stream, file)
\* fails with the UnsupportedMethod error.
C18_UnsupportedMethod ==
  \A t \in SettledUnsupported :
    /\ tasks[t].result.kind = "error"
    /\ tasks[t].result.error = UnsupportedMethod


(***************************************************************************)
(* Reader: the name and lastModified setters of an Entry                   *)
(***************************************************************************)
\* the 32-bit word the lastModified setter packs from the local fields of
\* new Date(v), as the 4 bytes setUint32(12, val, true) stores (years 1980
\* to 2107)
PackedTimestamp(date) ==
  LE16(getHours(date) * 2048 + getMinutes(date) * 32 + (getSeconds(date) \div 2))
  \o LE16(((getFullYear(date) - 1980) * 512 + (getMonth(date) + 1) * 32
            + getDate(date)) % 65536)

\* a setter that would store before it looks at the type: new Date(v) of a
\* value that is no number is an invalid date, whose fields pack to 0
StoreUnchecked(buffer, index, v) ==
  SetBytes(buffer, index + 12,
           IF v.type = "number" THEN PackedTimestamp(v.time) ELSE Zeros(4))

\* set lastModified (v): the central directory buffer after the assignment to
\* the handle whose view starts at index
StoreLastModified(buffer, index, v) ==
  IF v.type # "number" THEN buffer
  ELSE SetBytes(buffer, index + 12, PackedTimestamp(v.time))

\* set name (v): the #name field after the assignment
StoreName(current, v) ==
  IF v.type # "string" THEN current ELSE Defined(v.chars)

\* what an assignment completes with: undefined, or the TypeError thrown
Completion(wanted, v) ==
  IF v.type # wanted THEN [kind |-> "error", error |-> ERR_TYPE]
  ELSE [kind |-> "undefined"]

\* the record of an assignment in the list of operations called
Assignment(k, op, v, result) ==
  [handle |-> k, op |-> op, phase |-> "done", cached |-> FALSE, entryOffset |-> 0,
   raw |-> <<>>, value |-> v, result |-> result]

\* entry.name = v on the k-th handle
SetName(k, v) ==
  /\ rstate \in {"iterating", "done"}
  /\ k \in 1..Len(handles)
  /\ Len(tasks) < MaxReads
  /\ handles' = [handles EXCEPT ![k].name = StoreName(@, v)]
  /\ tasks' = Append(tasks, Assignment(k, "set name", v, Completion("string", v)))
  /\ UNCHANGED <<zone, wvars, blob, rstate, rerror, cdbytes, rnext, fileslength>>

\* entry.lastModified = v on the k-th handle
SetLastModified(k, v) ==
  /\ rstate \in {"iterating", "done"}
  /\ k \in 1..Len(handles)
  /\ Len(tasks) < MaxReads
  /\ cdbytes' = StoreLastModified(cdbytes, handles[k].index, v)
  /\ tasks' = Append(tasks, Assignment(k, "set lastModified", v,
                                       Completion("number", v)))
  /\ UNCHANGED <<zone, wvars, blob, rstate, rerror, rnext, fileslength, handles>>

(***************************************************************************)
(* Specification: handles are assigned to                                  *)
(***************************************************************************)
\* 'x', 'x/', a timestamp, and null
Values ==
  {[type |-> "string", chars |-> <<120>>],
   [type |-> "string", chars |-> <<120, 47>>],
   [type |-> "number", time |-> DateUTC(2010, 5, 6, 7, 8, 10, 0)],
   [type |-> "object"]}

AssignedEntries == {FileA, FileB}
TransformAssigned == \E e \in AssignedEntries : TransformBegin(e, Now)

AssignName == \E k \in 1..MaxEntries, v \in Values : SetName(k, v)
AssignLastModified == \E k \in 1..MaxEntries, v \in Values : SetLastModified(k, v)

NextAssign ==
  \/ TransformAssigned
  \/ ReadChunk
  \/ ReadDone
  \/ Flush
  \/ ReadArchive
  \/ ReaderNext
  \/ AssignName
  \/ AssignLastModified

SpecAssign == Init /\ [][NextAssign]_vars

\* what the accessors of handle h return over the central directory buffer
AccessorsOf(h, buffer) ==
  LET dv == ViewBytes(buffer, h)
  IN  [name |-> EntryName(h, dv),
       lastModified |-> EntryLastModified(dv),
       size |-> EntrySize(h, dv),
       compressedSize |-> compressedSize(h, dv),
       crc32 |-> crc32(dv),
       offset |-> EntryOffset(dv),
       comment |-> EntryComment(dv),
       directory |-> EntryDirectory(h, dv)]

\* the step appends the record of an assignment
Assigns == Len(tasks') = Len(tasks) + 1 /\ tasks'[Len(tasks')].op \in {"set name", "set lastModified"}

\* the assignment the step makes
Assigned == tasks'[Len(tasks')]

\* the value assigned has the type the setter wants
WellTyped(a) ==
  \/ a.op = "set name" /\ a.value.type = "string"
  \/ a.op = "set lastModified" /\ a.value.type = "number"

\* C19 (setter frame): assigning name or lastModified on one handle leaves
\* the blob, the accessors of every other handle, and the handle's own size,
\* compressedSize, crc32, offset, comment and directory unchanged, and of name
\* and lastModified changes only the one assigned.
C19_SetterFrame ==
  [][(Assigns /\ WellTyped(Assigned)) =>
       /\ blob' = blob
       /\ \A j \in 1..Len(handles) :
            LET before == AccessorsOf(handles[j], cdbytes)
                after == AccessorsOf(handles'[j], cdbytes')
            IN  IF j # Assigned.handle THEN after = before
                ELSE /\ after.size = before.size
                     /\ after.compressedSize = before.compressedSize
                     /\ after.crc32 = before.crc32
                     /\ after.offset = before.offset
                     /\ after.comment = before.comment
                     /\ after.directory = before.directory
                     /\ Assigned.op = "set name" =>
                          after.lastModified = before.lastModified
                     /\ Assigned.op = "set lastModified" =>
                          after.name = before.name]_vars

\* C20 (wrong-typed assignment): assigning a non-string to name or a
\* non-number to lastModified raises TypeError and leaves every accessor of
\* the handle with the value it had before the assignment.
C20_WrongTypeRejected ==
  [][(Assigns /\ ~WellTyped(Assigned)) =>
       /\ Assigned.result.kind = "error"
       /\ Assigned.result.error = ERR_TYPE
       /\ \A j \in 1..Len(handles) :
            j = Assigned.handle =>
              AccessorsOf(handles'[j], cdbytes') = AccessorsOf(handles[j], cdbytes)]_vars

\* a wrong-typed assignment to lastModified was rejected on a handle whose
\* name had been assigned before
C20_Witness ==
  /\ Len(tasks) = 2
  /\ tasks[1].op = "set name" /\ tasks[1].result.kind = "undefined"
  /\ tasks[2].op = "set lastModified" /\ tasks[2].handle = tasks[1].handle
  /\ tasks[2].value.type = "string"
  /\ tasks[2].result.kind = "error"


(***************************************************************************)
(* The offset counter                                                      *)
(***************************************************************************)
\* the number of bytes the chunk p of the output stands for: its length, or
\* the size of the entry for the data of a bulk stream
ChunkBytes(p) ==
  IF outlog[p].kind = "bulk"
  THEN LET i == CHOOSE j \in 1..Len(accepted) :
                  NormalizedName(accepted[j]) = outlog[p].name
       IN  accepted[i].size
  ELSE NumOf(Len(out[p]))

RECURSIVE EmittedBefore(_)
\* the number of bytes emitted before the chunk p
EmittedBefore(p) ==
  IF p <= 1 THEN NumOf(0) ELSE NumAdd(EmittedBefore(p - 1), ChunkBytes(p - 1))

\* the number of bytes emitted so far
Emitted == EmittedBefore(Len(out) + 1)

\* C21 (offset invariant): between entries the offset counter equals the
\* number of bytes emitted so far, and the offset recorded for an entry is the
\* position at which its local header was emitted; so the counter at flush is
\* the position of the first central directory header.
C21_OffsetInvariant ==
  /\ FlushDue => offset = Emitted
  /\ wstatus = "open" =>
       \A p \in 1..Len(out) :
         outlog[p].kind = "local" => files[outlog[p].name].offset = EmittedBefore(p)

\* flush is due after an entry of more than 4 GiB and an entry delivered in
\* two chunks
C21_Witness ==
  /\ FlushDue
  /\ Len(accepted) = 2
  /\ Exceeds32(offset)
  /\ \E p \in 1..Len(out) : outlog[p].kind = "data" /\ Len(out[p]) = 2


(***************************************************************************)
(* The records that end the archive                                        *)
(***************************************************************************)
RECURSIVE HeadersEnd(_, _)
\* where the run of central directory headers that starts at index of data
\* ends, each header taken with the lengths it states
HeadersEnd(data, index) ==
  IF Slice(data, index, index + 4) # <<80, 75, 1, 2>> THEN index
  ELSE HeadersEnd(data, index + 46 + uint16e(data, index + 28)
                          + uint16e(data, index + 30) + uint16e(data, index + 32))

\* C22 (terminator contents): in the chunk flush emits, when the archive is
\* promoted the ZIP64 end record carries the true entry count, central
\* directory size and start, the locator's offset is start + size, where the
\* ZIP64 end record begins, and the classic end record holds 0xFFFF in both
\* counts and 0xFFFFFFFF in size and offset; when not promoted the classic end
\* record holds the true count, size and offset.
C22_TerminatorContents ==
  FlushDue =>
    LET d == Flushed
        count == Len(DirectoryNames(d, 0))
        size == HeadersEnd(d, 0)
        start == Emitted
    IN  /\ count = Len(accepted)
        /\ IF PromotionDue
           THEN /\ Len(d) = size + 98
                /\ Slice(d, size + 24, size + 32) = LE64(NumOf(count))
                /\ Slice(d, size + 32, size + 40) = LE64(NumOf(count))
                /\ Slice(d, size + 40, size + 48) = LE64(NumOf(size))
                /\ Slice(d, size + 48, size + 56) = LE64(start)
                /\ Slice(d, size + 64, size + 72) = LE64(NumAdd(start, NumOf(size)))
                /\ Slice(d, size + 84, size + 88) = <<255, 255, 255, 255>>
                /\ Slice(d, size + 88, size + 92) = <<255, 255, 255, 255>>
                /\ Slice(d, size + 92, size + 96) = <<255, 255, 255, 255>>
           ELSE /\ Len(d) = size + 22
                /\ Slice(d, size + 8, size + 10) = LE16(count)
                /\ Slice(d, size + 10, size + 12) = LE16(count)
                /\ Slice(d, size + 12, size + 16) = LE32(NumOf(size))
                /\ Slice(d, size + 16, size + 20) = LE32(start)

\* flush is due for a promoted archive of two entries whose central directory
\* starts beyond 4 GiB
C22_Witness ==
  /\ FlushDue
  /\ PromotionDue
  /\ Len(filenames) = 2
  /\ Exceeds32(Emitted)
  /\ files[filenames[2]].zip64


(***************************************************************************)
(* Specification: archives laid out field by field are read                *)
(***************************************************************************)
\* a local file header of a stored entry, followed by its data
LocalRecord(name, data) ==
  SetAll(Zeros(30 + Len(name)),
    <<[at |-> 0, src |-> <<80, 75, 3, 4>>],
      [at |-> 4, src |-> LE16(20)],
      [at |-> 18, src |-> LE32(NumOf(Len(data)))],
      [at |-> 22, src |-> LE32(NumOf(Len(data)))],
      [at |-> 26, src |-> LE16(Len(name))],
      [at |-> 30, src |-> name]>>) \o data

\* a central directory header with the fields of r: signature, flag, the 4
\* bytes of the compressed size, size and local offset fields, name, extra
\* field area and comment
CentralRecord(r) ==
  SetAll(Zeros(46 + Len(r.name) + Len(r.extra) + Len(r.comment)),
    <<[at |-> 0, src |-> r.signature],
      [at |-> 6, src |-> LE16(20)],
      [at |-> 8, src |-> LE16(r.flag)],
      [at |-> 20, src |-> r.csize],
      [at |-> 24, src |-> r.size],
      [at |-> 28, src |-> LE16(Len(r.name))],
      [at |-> 30, src |-> LE16(Len(r.extra))],
      [at |-> 32, src |-> LE16(Len(r.comment))],
      [at |-> 42, src |-> r.offset],
      [at |-> 46, src |-> r.name],
      [at |-> 46 + Len(r.name), src |-> r.extra],
      [at |-> 46 + Len(r.name) + Len(r.extra), src |-> r.comment]>>)

\* the bytes before the local header, the data of the entry, and the fields
\* of the central header of the stored entry 'a' that follows them
Stub == Zeros(5)
StoredData == <<1, 2, 3>>
PlainFields ==
  [signature |-> <<80, 75, 1, 2>>, flag |-> 0,
   csize |-> LE32(NumOf(Len(StoredData))), size |-> LE32(NumOf(Len(StoredData))),
   offset |-> LE32(NumOf(Len(Stub))), name |-> <<97>>, extra |-> <<>>,
   comment |-> <<>>]

\* an archive: the stub, the entry 'a', the central directory made of the
\* given headers, and an end record that states count headers
Archive(directory, count) ==
  LET local == Stub \o LocalRecord(<<97>>, StoredData)
  IN  local \o directory \o EndRecord(count, Len(directory), Len(local))

\* an extra field: id, length and payload
ExtraField(id, payload) == LE16(id) \o LE16(Len(payload)) \o payload

\* the header of 'a' with the classic fields named in s replaced by
\* 0xFFFFFFFF and their 64-bit values in the ZIP64 extra field, in the order
\* uncompressed size, compressed size, local offset
Zip64Fields(s) ==
  LET sentinel == LE32(MAX_VALUE_32BITS)
      payload == (IF "size" \in s THEN NumOf(Len(StoredData)) ELSE <<>>)
                 \o (IF "csize" \in s THEN NumOf(Len(StoredData)) ELSE <<>>)
                 \o (IF "offset" \in s THEN NumOf(Len(Stub)) ELSE <<>>)
  IN  [PlainFields EXCEPT
         !.size = IF "size" \in s THEN sentinel ELSE @,
         !.csize = IF "csize" \in s THEN sentinel ELSE @,
         !.offset = IF "offset" \in s THEN sentinel ELSE @,
         !.extra = IF s = {} THEN <<>> ELSE ExtraField(1, payload)]

Zip64Archives ==
  {Archive(CentralRecord(Zip64Fields(s)), 1) : s \in SUBSET {"size", "csize", "offset"}}

\* the Info-ZIP Unicode Path extra field (0x7075) naming the entry 'b':
\* version, the CRC-32 of the raw name, the UTF-8 name
UnicodePath == ExtraField(28789, <<1, 67, 190, 183, 232, 98>>)

\* general purpose flags: none, bit 3, bit 11, bits 3 and 11
Flags == {0, 8, 2048, 2056}

NameArchives ==
  {Archive(CentralRecord([PlainFields EXCEPT !.flag = f, !.extra = x]), 1) :
     f \in Flags, x \in {<<>>, UnicodePath}}

\* central directories whose second header is cut short, is missing, or does
\* not start with the signature
BrokenArchives ==
  LET good == CentralRecord(PlainFields)
      unsigned == CentralRecord([PlainFields EXCEPT !.signature = <<80, 75, 3, 4>>])
  IN  {Archive(good \o SubSeq(good, 1, 46), 2),
       Archive(good, 2),
       Archive(good \o unsigned, 2),
       Archive(unsigned \o good, 2),
       Archive(good \o good, 2)}

\* an archive whose end record holds the sentinels and is followed by a
\* comment of n bytes; the ZIP64 end record and its locator stand before it
Zip64Terminated(n) ==
  LET local == Stub \o LocalRecord(<<97>>, StoredData)
      directory == CentralRecord(PlainFields)
      record == SetAll(Zeros(56),
                  <<[at |-> 0, src |-> <<80, 75, 6, 6>>],
                    [at |-> 4, src |-> LE64(NumOf(44))],
                    [at |-> 12, src |-> LE16(45)],
                    [at |-> 14, src |-> LE16(45)],
                    [at |-> 24, src |-> LE64(NumOf(1))],
                    [at |-> 32, src |-> LE64(NumOf(1))],
                    [at |-> 40, src |-> LE64(NumOf(Len(directory)))],
                    [at |-> 48, src |-> LE64(NumOf(Len(local)))]>>)
      locator == SetAll(Zeros(20),
                   <<[at |-> 0, src |-> <<80, 75, 6, 7>>],
                     [at |-> 8, src |-> LE64(NumOf(Len(local) + Len(directory)))],
                     [at |-> 16, src |-> LE32(NumOf(1))]>>)
      last == SetAll(Zeros(22 + n),
                <<[at |-> 0, src |-> <<80, 75, 5, 6>>],
                  [at |-> 8, src |-> LE16(65535)],
                  [at |-> 10, src |-> LE16(65535)],
                  [at |-> 12, src |-> LE32(MAX_VALUE_32BITS)],
                  [at |-> 16, src |-> LE32(MAX_VALUE_32BITS)],
                  [at |-> 20, src |-> LE16(n)]>>)
  IN  local \o directory \o record \o locator \o last

\* the lengths of the archive comment
CommentLengths == {0, 1, 3}

Zip64TerminatedArchives == {Zip64Terminated(n) : n \in CommentLengths}

CraftedArchives ==
  Zip64Archives \cup NameArchives \cup BrokenArchives \cup Zip64TerminatedArchives

InitCrafted == Fresh /\ blob \in CraftedArchives

\* the reads called on the handles of these archives
CraftedReads == {"rawBytes", "bytes", "file"}
ReadCrafted == \E k \in 1..MaxEntries, op \in CraftedReads : ReadCall(k, op)

NextCrafted ==
  \/ ReadBlob
  \/ ReaderNext
  \/ ReadCrafted
  \/ ReadResume

SpecCrafted == InitCrafted /\ [][NextCrafted]_vars


(***************************************************************************)
(* Reader: ZIP64 values of a central header                                *)
(***************************************************************************)
\* the classic 32-bit field at i of the header holds 0xFFFFFFFF
SentinelAt(dv, i) == SubSeq(dv, i + 1, i + 4) = <<255, 255, 255, 255>>

\* how many of the classic fields at the given places hold the sentinel
Sentinels(dv, places) == Cardinality({i \in places : SentinelAt(dv, i)})

\* where in the ZIP64 extra field the 64-bit value of the classic field at i
\* stands: after the values of the fields before it that hold the sentinel,
\* in the order uncompressed size (24), compressed size (20), local offset (42)
Zip64Position(dv, i) ==
  8 * Sentinels(dv, CASE i = 24 -> {} [] i = 20 -> {24} [] i = 42 -> {24, 20})

\* the header names a 64-bit value for its classic field at i
Zip64Names(h, dv, i) ==
  /\ SentinelAt(dv, i)
  /\ HasExtra(h, 1)
  /\ Len(h.extraFields[1]) >= Zip64Position(dv, i) + 8

\* that value
Zip64Value(h, dv, i) == getBigUint64(h.extraFields[1], Zip64Position(dv, i))

\* C23 (reader offset promotion): for a central header whose classic local
\* offset is 0xFFFFFFFF, the offset of the handle is the 64-bit value the
\* ZIP64 extra field holds for the local offset, and the raw data is fetched
\* from that offset.
C23_OffsetPromotion ==
  rstate \in {"iterating", "done"} =>
    \A k \in 1..Len(handles) :
      LET h == handles[k]
          dv == DataViewOf(k)
      IN  Zip64Names(h, dv, 42) =>
            /\ EntryOffset(dv) = Zip64Value(h, dv, 42)
            /\ \A t \in 1..Len(tasks) :
                 tasks[t].handle = k =>
                   tasks[t].entryOffset = NumToInt(Zip64Value(h, dv, 42))

\* C24 (positional ZIP64 decoding): size and compressedSize are the classic
\* 32-bit field unless it holds 0xFFFFFFFF, and then the 8-byte value of the
\* ZIP64 extra field that stands at 8 times the number of the preceding
\* fields (uncompressed, compressed, local offset) that hold the sentinel
\* too; so compressedSize is read at position 0 when only the compressed
\* field holds the sentinel.
C24_PositionalDecoding ==
  rstate \in {"iterating", "done"} =>
    \A k \in 1..Len(handles) :
      LET h == handles[k]
          dv == DataViewOf(k)
      IN  /\ EntrySize(h, dv) = IF Zip64Names(h, dv, 24) THEN Zip64Value(h, dv, 24)
                                ELSE getUint32(dv, 24)
          /\ compressedSize(h, dv) = IF Zip64Names(h, dv, 20) THEN Zip64Value(h, dv, 20)
                                     ELSE getUint32(dv, 20)


(***************************************************************************)
(* Reader: where the name of an entry is taken from                        *)
(***************************************************************************)
\* bit 11 of the general purpose flag: the name bytes are UTF-8
Utf8Flagged(dv) == (bitFlag(dv) \div 2048) % 2 = 1

\* the name bytes of the header, decoded
RawName(dv) == Utf8Decode(SubSeq(dv, 47, 46 + filenameLength(dv)))

\* the payload of the Unicode Path extra field after its first 5 bytes, decoded
PathName(h) == Utf8Decode(Slice(h.extraFields[28789], 5, Len(h.extraFields[28789])))

\* C25 (name source selection): the name of a handle no name was assigned to
\* is decoded from the raw name bytes if bit 11 of the flag is set; for every
\* flag with bit 11 clear it is decoded from the Unicode Path extra field
\* (0x7075) after its first 5 bytes when that field is present, and from the
\* raw name bytes when it is absent.
C25_NameSource ==
  rstate \in {"iterating", "done"} =>
    \A k \in 1..Len(handles) :
      LET h == handles[k]
          dv == DataViewOf(k)
      IN  EntryName(h, dv) = IF Utf8Flagged(dv) THEN RawName(dv)
                             ELSE IF HasExtra(h, 28789) THEN PathName(h)
                             ELSE RawName(dv)


(***************************************************************************)
(* Reader: the ZIP64 records of an archive                                 *)
(***************************************************************************)
\* the Reader was given a blob in which it found an end record whose central
\* directory offset is 0xFFFFFFFF
SentinelEndFound ==
  /\ rstate # "idle"
  /\ Len(blob) >= EOCDR_MIN
  /\ SeekEnd(blob) >= 0
  /\ SentinelAt(blob, SeekEnd(blob) + 16)

\* the 20 bytes that precede the end record found
LocatorBefore(file) == Slice(file, SeekEnd(file) - 20, SeekEnd(file))

\* the 56 bytes at the position the locator before the end record names
RecordNamed(file) ==
  LET at == NumToInt(getBigUint64(LocatorBefore(file), 8))
  IN  Slice(file, at, at + 56)

\* C26 (ZIP64 locator position): when the end record found has central
\* directory offset 0xFFFFFFFF, the reader takes the locator from the 20
\* bytes before that end record, whatever the length of the archive comment,
\* and the entry count, central directory size and offset from the ZIP64 end
\* record the locator points to.
C26_LocatorPosition ==
  (SentinelEndFound /\ Len(RecordNamed(blob)) = 56) =>
    LET record == RecordNamed(blob)
        start == NumToInt(getBigUint64(record, 48))
    IN  /\ rstate \in {"iterating", "done"}
        /\ fileslength = NumToInt(getBigUint64(record, 32))
        /\ cdbytes = Slice(blob, start, start + NumToInt(getBigUint64(record, 40)))


(***************************************************************************)
(* Reader: validation of the central directory                             *)
(***************************************************************************)
\* the errors the Reader throws for an archive it finds malformed
BadFormat == {ERR_BAD_FORMAT, ERR_INVALID_ZIP, ERR_ENTRY_SIGNATURE}

\* the span the record at index of bytes states for itself
RecordSpan(bytes, index) ==
  46 + uint16e(bytes, index + 28) + uint16e(bytes, index + 30)
  + uint16e(bytes, index + 32)

\* the record at index lies inside bytes and starts with the signature
ValidRecord(bytes, index) ==
  /\ index + RecordSpan(bytes, index) <= Len(bytes)
  /\ Slice(bytes, index, index + 4) = <<80, 75, 1, 2>>

RECURSIVE RecordStart(_, _)
\* where the k-th record of bytes starts, each taken with the span it states
RecordStart(bytes, k) ==
  IF k <= 1 THEN 0
  ELSE RecordStart(bytes, k - 1) + RecordSpan(bytes, RecordStart(bytes, k - 1))

\* the iteration stopped with an error at a record
FailedAtRecord == rstate = "failed" /\ rnext.i < fileslength

\* C27 (central directory validation): the handles yielded are, in order, the
\* records whose whole span of 46 + nameLength + extraLength + commentLength
\* bytes lies inside the central directory bytes read and that start with the
\* central header signature; at the first record that is not, the read fails
\* with BadFormat after the handles of all earlier records have been yielded.
C27_DirectoryValidation ==
  /\ \A k \in 1..Len(handles) :
       /\ handles[k].index = RecordStart(cdbytes, k)
       /\ handles[k].size = RecordSpan(cdbytes, handles[k].index)
       /\ ValidRecord(cdbytes, handles[k].index)
  /\ rstate = "done" => Len(handles) = fileslength
  /\ (FailedAtRecord /\ ~ValidRecord(cdbytes, rnext.index)) =>
       /\ rerror \in BadFormat
       /\ Len(handles) = rnext.i
       /\ rnext.index = RecordStart(cdbytes, rnext.i + 1)
  /\ (rstate = "iterating" /\ rnext.i < fileslength) =>
       /\ Len(handles) = rnext.i
       /\ rnext.index = RecordStart(cdbytes, rnext.i + 1)

\* the read failed at the second record, which lies inside the bytes read but
\* does not start with the signature, after the first was yielded
C27_Witness ==
  /\ FailedAtRecord
  /\ Len(handles) = 1
  /\ rnext.index + RecordSpan(cdbytes, rnext.index) <= Len(cdbytes)
  /\ ~ValidRecord(cdbytes, rnext.index)
  /\ rerror = ERR_ENTRY_SIGNATURE


(***************************************************************************)
(* Specification: the output of the Writer is consumed chunk by chunk      *)
(***************************************************************************)
\* the high water mark of the readable side of `new TransformStream(transformer)`
HighWaterMark == 0

\* the chunks enqueued that the consumer has not taken yet
Queued == IF Len(out) > pulled THEN Len(out) - pulled ELSE 0

\* the output queue is full: no read of the consumer is pending and the
\* queue holds no less than the high water mark
Backpressure == pulled <= Len(out) /\ Queued >= HighWaterMark

\* the consumer reads from the output, one read at a time
Pull ==
  /\ pulled <= Len(out)
  /\ pulled' = pulled + 1
  /\ UNCHANGED <<offset, files, filenames, cur, out, outlog, wstatus, werror,
                 accepted, rejected, rvars, tasks, zone>>

\* the stream calls transform(entry, ctrl) once the output has no backpressure
TransformPulled ==
  /\ ~Backpressure
  /\ \E e \in ReadEntries : TransformBegin(e, Now)

NextPressure ==
  \/ TransformPulled
  \/ ReadChunk
  \/ ReadDone
  \/ Flush
  \/ Pull

SpecPressure == Init /\ [][NextPressure]_vars

\* the step reads a chunk from the source of the entry and enqueues it
ReadsSource ==
  /\ Len(outlog') = Len(outlog) + 1
  /\ outlog'[Len(outlog')].kind = "data"

\* C28 (backpressure): within the body of an entry the Writer does not read
\* the next chunk from the entry's source while the output queue is full, so
\* the chunks enqueued but not yet consumed stay within the queue's capacity.
C28_Backpressure == [][ReadsSource => ~Backpressure]_vars


(***************************************************************************)
(* Writer: the year of the packed date                                     *)
(***************************************************************************)
\* the year the 7-bit field of the packed date of a header stands for
PackedYear(header) == 1980 + (getUint16(header, 8) \div 512)

\* a year brought into the range the field can hold
ClampedYear(y) == IF y < 1980 THEN 1980 ELSE IF y > 2107 THEN 2107 ELSE y

\* C29 (year clamping): the date packed for an entry carries the local year
\* of its lastModified brought into 1980..2107: 1980 for an earlier year and
\* 2107 for a later one.
C29_YearClamping ==
  \A k \in 1..Len(filenames) :
    accepted[k].lastModified # Undefined =>
      PackedYear(files[filenames[k]].header)
        = ClampedYear(getFullYear(accepted[k].lastModified))


(***************************************************************************)
(* Reader: the bytes of a record read as extra fields                      *)
(***************************************************************************)
\* the extra-field region of a record: the extraLength bytes after its name
ExtraRegion(dv) ==
  Slice(dv, 46 + filenameLength(dv), 46 + filenameLength(dv) + extraFieldLength(dv))

\* the (tag, length, payload) fields of the extra-field region alone
RegionFields(dv) ==
  ScanExtraFields(ExtraRegion(dv), 0, ExtraRegion(dv), 0, <<>>)

\* the record the iteration stands at, with the span it states
RecordAtNext ==
  Slice(cdbytes, rnext.index, rnext.index + RecordSpan(cdbytes, rnext.index))

\* C30 (extra-field indexing is confined to the extra-field region): the extra
\* fields of a handle are those of the extraLength bytes after the name and no
\* others, and the construction of a handle does not fail at a well-formed
\* record whose extra-field region is well formed, whatever its comment.
C30_ExtraFieldsConfined ==
  /\ \A k \in 1..Len(handles) :
       handles[k].extraFields = RegionFields(DataViewOf(k)).fields
  /\ (FailedAtRecord /\ ValidRecord(cdbytes, rnext.index)) =>
       RegionFields(RecordAtNext).error # NoError


=============================================================================
